---- MODULE Spec2Model ----
(***************************************************************************)
(* Finance reconciliation: the matching cascade (entity_matcher.py), the   *)
(* balance validator (balance_calculator.py) and the session handlers      *)
(* auto_match / confirm_match (app.py).                                    *)
(*                                                                         *)
(* Amounts are exact integers in thousandths of a currency unit, so the    *)
(* tolerance 0.01 is 10.  Scores and confidences are exact integers in     *)
(* units of 1/SCALE, so 1.0 is SCALE.                                      *)
(***************************************************************************)
EXTENDS Integers, Sequences, FiniteSets, TLC

\* ------------------------------------------------------------------ bounds
\* Number of rows of the processed transaction table (original_index 0..MaxTxns-1).
MaxTxns == 4
\* Sizes of the revenue and expense pools the cascade alone is run on.
MaxRevenues == 2
MaxExpenses == 3
MaxCandidates == 11
MaxUnits == 3
MaxDPExpenses == 3
MaxGroupExpenses == 2
MaxGroups == 3
MaxPool == 6
MaxQueueRevenues == 2
MaxQueueExpenses == 3

\* ------------------------------------------------------- program constants
\* config.py:28  BALANCE_TOLERANCE = 0.01 (in thousandths)
BALANCE_TOLERANCE == 10
\* config.py:25
KEYWORD_MIN_LENGTH == 3
\* 1.0 on the score scale; divisible by 100, by 1..6 and by 60 so that
\* every ratio and every mean of up to 5 scores of the model is exact.
SCALE == 3600 * 100
\* config.py:23  FUZZY_MATCH_THRESHOLD = 0.80
FUZZY_MATCH_THRESHOLD == (80 * SCALE) \div 100
\* config.py:35-51
STOPWORDS ==
  {"to", "from", "for", "the", "and", "or", "in", "at", "by", "invoice",
   "payment", "receipt", "transaction", "bill", "ref"}
\* keyword_match(..., min_keywords: int = 2)
MIN_KEYWORDS == 2
\* potential_expenses[:10]
TOP_CANDIDATES == 10
\* range(2, min(6, ...)): combination sizes stop before 6
COMBO_STOP == 6

\* ----------------------------------------------------------------- helpers
Abs(x) == IF x < 0 THEN -x ELSE x
Min(a, b) == IF a < b THEN a ELSE b
Max(a, b) == IF a > b THEN a ELSE b
Range(s) == {s[i] : i \in 1..Len(s)}

RECURSIVE SumSeq(_)
SumSeq(s) == IF s = <<>> THEN 0 ELSE s[1] + SumSeq(Tail(s))

\* --------------------------------------------------- description strings
\* The descriptions the model draws from (already trimmed by
\* process_transactions).
Descriptions ==
  {"Acme Corp Fee", "acme corp fee", "Acme Corp payment A", "Acme fee",
   "Acme fees", "Rent"}

\* str(description).lower().strip()
lower_strip(d) ==
  CASE d = "Acme Corp Fee" -> "acme corp fee"
    [] d = "acme corp fee" -> "acme corp fee"
    [] d = "Acme Corp payment A" -> "acme corp payment a"
    [] d = "Acme fee" -> "acme fee"
    [] d = "Acme fees" -> "acme fees"
    [] d = "Rent" -> "rent"

\* text.lower(); re.sub(r"[^\w\s]", " ", text); text.split()
words(d) ==
  CASE d = "Acme Corp Fee" -> <<"acme", "corp", "fee">>
    [] d = "acme corp fee" -> <<"acme", "corp", "fee">>
    [] d = "Acme Corp payment A" -> <<"acme", "corp", "payment", "a">>
    [] d = "Acme fee" -> <<"acme", "fee">>
    [] d = "Acme fees" -> <<"acme", "fees">>
    [] d = "Rent" -> <<"rent">>

\* len(word)
word_len(w) ==
  CASE w = "a" -> 1
    [] w = "fee" -> 3
    [] w \in {"acme", "corp", "fees", "rent"} -> 4
    [] w = "payment" -> 7

\* EntityMatcher.extract_keywords
extract_keywords(d) ==
  {w \in Range(words(d)) :
     w \notin STOPWORDS /\ word_len(w) >= KEYWORD_MIN_LENGTH}

\* fuzz.token_sort_ratio(text1, text2): 0..100, the rounded matching ratio of
\* the lower-cased, token-sorted strings, tabulated for Descriptions (the
\* ratio is not symmetric in its arguments).
token_sort_ratio(d1, d2) ==
  LET a == lower_strip(d1)
      b == lower_strip(d2)
  IN  CASE a = b -> 100
        [] a # b /\ a = "acme corp fee" ->
             (CASE b = "acme corp payment a" -> 69 [] b = "acme fee" -> 76
                [] b = "acme fees" -> 73 [] b = "rent" -> 12)
        [] a # b /\ a = "acme corp payment a" ->
             (CASE b = "acme corp fee" -> 69 [] b = "acme fee" -> 44
                [] b = "acme fees" -> 43 [] b = "rent" -> 35)
        [] a # b /\ a = "acme fee" ->
             (CASE b = "acme corp fee" -> 76 [] b = "acme corp payment a" -> 44
                [] b = "acme fees" -> 94 [] b = "rent" -> 17)
        [] a # b /\ a = "acme fees" ->
             (CASE b = "acme corp fee" -> 73 [] b = "acme corp payment a" -> 43
                [] b = "acme fee" -> 94 [] b = "rent" -> 15)
        [] a # b /\ a = "rent" ->
             (CASE b = "acme corp fee" -> 24 [] b = "acme corp payment a" -> 35
                [] b = "acme fee" -> 17 [] b = "acme fees" -> 15)

\* EntityMatcher.calculate_similarity: score / 100.0
calculate_similarity(text1, text2) ==
  token_sort_ratio(text1, text2) * (SCALE \div 100)

\* ------------------------------------------------------------ transactions
\* A transaction is a row dict [original_index, amount, description];
\* abs_amount and transaction_type are derived columns (process_transactions).
abs_amount(t) == Abs(t.amount)
transaction_type(t) ==
  IF t.amount < 0 THEN "expense" ELSE IF t.amount > 0 THEN "revenue" ELSE "zero"

index_set(pool) == {pool[i].original_index : i \in 1..Len(pool)}

\* The filter with its negation lost: keeps the rows it should remove.
drop_ids_inverted(pool, ids) == SelectSeq(pool, LAMBDA t : t.original_index \in ids)

\* df[~df["original_index"].isin(ids)]
drop_ids(pool, ids) == SelectSeq(pool, LAMBDA t : t.original_index \notin ids)

\* The loop state of a matching stage.
stage_start == [matches |-> <<>>, matched_expense_ids |-> {},
                matched_revenue_ids |-> {}]

stage_result(acc, expenses, revenues) ==
  [matches |-> acc.matches,
   remaining_expenses |-> drop_ids(expenses, acc.matched_expense_ids),
   remaining_revenues |-> drop_ids(revenues, acc.matched_revenue_ids)]

\* ---------------------------------------------------------- exact stage
\* exact_condition with the tolerance bound included.
exact_condition_inclusive(expense, revenue) ==
  /\ Abs(abs_amount(expense) - abs_amount(revenue)) <= BALANCE_TOLERANCE
  /\ lower_strip(expense.description) = lower_strip(revenue.description)

\* The condition of entity_matcher.py:158-161.
exact_condition(expense, revenue) ==
  /\ Abs(abs_amount(expense) - abs_amount(revenue)) < BALANCE_TOLERANCE
  /\ lower_strip(expense.description) = lower_strip(revenue.description)

\* The inner loop (lines 150-173): the position of the first expense from j
\* on that is not yet matched and satisfies the condition, 0 if none.
\* exact_scan giving up at the first consumed expense instead of skipping it.
RECURSIVE exact_scan_break(_, _, _, _)
exact_scan_break(expenses, revenue, matched_expense_ids, j) ==
  IF j > Len(expenses) THEN 0
  ELSE IF expenses[j].original_index \in matched_expense_ids THEN 0
  ELSE IF exact_condition(expenses[j], revenue) THEN j
  ELSE exact_scan_break(expenses, revenue, matched_expense_ids, j + 1)

RECURSIVE exact_scan(_, _, _, _)
exact_scan(expenses, revenue, matched_expense_ids, j) ==
  IF j > Len(expenses) THEN 0
  ELSE IF /\ expenses[j].original_index \notin matched_expense_ids
          /\ exact_condition(expenses[j], revenue)
       THEN j
       ELSE exact_scan(expenses, revenue, matched_expense_ids, j + 1)

\* The outer loop (lines 145-173) from revenue i on.
RECURSIVE exact_loop(_, _, _, _)
exact_loop(expenses, revenues, i, acc) ==
  IF i > Len(revenues) THEN acc
  ELSE LET revenue == revenues[i]
           j == exact_scan(expenses, revenue, acc.matched_expense_ids, 1)
       IN  exact_loop(expenses, revenues, i + 1,
             IF j = 0 THEN acc
             ELSE [matches |-> Append(acc.matches,
                     [match_type |-> "exact",
                      confidence |-> SCALE,
                      revenue |-> revenue,
                      expenses |-> <<expenses[j]>>,
                      balance |-> abs_amount(revenue) - abs_amount(expenses[j])]),
                   matched_expense_ids |->
                     acc.matched_expense_ids \cup {expenses[j].original_index},
                   matched_revenue_ids |->
                     acc.matched_revenue_ids \cup {revenue.original_index}])

exact_match(expenses, revenues) ==
  stage_result(exact_loop(expenses, revenues, 1, stage_start), expenses, revenues)

\* --------------------------------------------------- combination solver
\* A descending sort that leaves candidates of equal score in reverse order.
RECURSIVE sort_by_score_ties_reversed(_)
sort_by_score_ties_reversed(s) ==
  IF s = <<>> THEN <<>>
  ELSE LET front == sort_by_score_ties_reversed(SubSeq(s, 1, Len(s) - 1))
           x == s[Len(s)]
           k == Cardinality({i \in 1..Len(front) :
                               front[i].keyword_score > x.keyword_score})
       IN  SubSeq(front, 1, k) \o <<x>> \o SubSeq(front, k + 1, Len(front))

\* list.sort(key=keyword_score, reverse=True): stable, descending.
RECURSIVE sort_by_score(_)
sort_by_score(s) ==
  IF s = <<>> THEN <<>>
  ELSE LET front == sort_by_score(SubSeq(s, 1, Len(s) - 1))
           x == s[Len(s)]
           k == Cardinality({i \in 1..Len(front) :
                               front[i].keyword_score >= x.keyword_score})
       IN  SubSeq(front, 1, k) \o <<x>> \o SubSeq(front, k + 1, Len(front))

\* itertools.combinations over positions lo..n, size k, in generation order.
RECURSIVE combinations(_, _, _)
combinations(lo, n, k) ==
  IF k = 0 THEN << <<>> >>
  ELSE IF n - lo + 1 < k THEN <<>>
  ELSE LET with == combinations(lo + 1, n, k - 1)
       IN  [i \in 1..Len(with) |-> <<lo>> \o with[i]]
             \o combinations(lo + 1, n, k)

multi_name(n) ==
  CASE n = 2 -> "fuzzy_multiple_2" [] n = 3 -> "fuzzy_multiple_3"
    [] n = 4 -> "fuzzy_multiple_4" [] n = 5 -> "fuzzy_multiple_5"

\* Lines 331-341: the first single candidate within tolerance, 0 if none.
RECURSIVE single_scan(_, _, _)
single_scan(sorted, revenue_amount, i) ==
  IF i > Len(sorted) THEN 0
  ELSE IF Abs(abs_amount(sorted[i].expense) - revenue_amount) < BALANCE_TOLERANCE
       THEN i
       ELSE single_scan(sorted, revenue_amount, i + 1)

combo_total(sorted, combo) ==
  SumSeq([i \in 1..Len(combo) |-> abs_amount(sorted[combo[i]].expense)])

\* Lines 345-360 for one size: the first combination within tolerance, <<>> if none.
combo_scan(sorted, revenue_amount, combos, i) ==
  LET hits == {k \in i..Len(combos) :
                 Abs(combo_total(sorted, combos[k]) - revenue_amount)
                   < BALANCE_TOLERANCE}
  IN  IF hits = {} THEN <<>>
      ELSE combos[CHOOSE k \in hits : \A k2 \in hits : k <= k2]

\* size_scan that stops one combination size early.
RECURSIVE size_scan_short(_, _, _)
size_scan_short(sorted, revenue_amount, combo_size) ==
  IF combo_size >= Min(COMBO_STOP - 1, Len(sorted) + 1) THEN <<>>
  ELSE LET hit == combo_scan(sorted, revenue_amount,
                    combinations(1, Min(TOP_CANDIDATES, Len(sorted)), combo_size), 1)
       IN  IF hit # <<>> THEN hit
           ELSE size_scan_short(sorted, revenue_amount, combo_size + 1)

\* Lines 344-360: sizes 2 .. min(6, len + 1) - 1 over the first 10 candidates.
RECURSIVE size_scan(_, _, _)
size_scan(sorted, revenue_amount, combo_size) ==
  IF combo_size >= Min(COMBO_STOP, Len(sorted) + 1) THEN <<>>
  ELSE LET hit == combo_scan(sorted, revenue_amount,
                    combinations(1, Min(TOP_CANDIDATES, Len(sorted)), combo_size), 1)
       IN  IF hit # <<>> THEN hit
           ELSE size_scan(sorted, revenue_amount, combo_size + 1)

\* Lines 344-348: the number of combinations whose total is compared with the
\* revenue amount from size combo_size on, up to and including the first hit.
RECURSIVE size_checks(_, _, _)
size_checks(sorted, revenue_amount, combo_size) ==
  IF combo_size >= Min(COMBO_STOP, Len(sorted) + 1) THEN 0
  ELSE LET combos == combinations(1, Min(TOP_CANDIDATES, Len(sorted)), combo_size)
           hits == {k \in 1..Len(combos) :
                      Abs(combo_total(sorted, combos[k]) - revenue_amount)
                        < BALANCE_TOLERANCE}
       IN  IF hits # {} THEN CHOOSE k \in hits : \A k2 \in hits : k <= k2
           ELSE Len(combos) + size_checks(sorted, revenue_amount, combo_size + 1)

\* The executions of line 348 in one call: none when a single candidate is
\* returned (lines 331-341).
combination_checks(revenue, potential_expenses) ==
  LET sorted == sort_by_score(potential_expenses)
  IN  IF single_scan(sorted, abs_amount(revenue), 1) # 0 THEN 0
      ELSE size_checks(sorted, abs_amount(revenue), 2)

\* _find_best_expense_combination giving a combination the sum of its scores
\* as confidence.
_find_best_expense_combination_summed(revenue, potential_expenses) ==
  LET revenue_amount == abs_amount(revenue)
      sorted == sort_by_score(potential_expenses)
      one == single_scan(sorted, revenue_amount, 1)
      combo == size_scan(sorted, revenue_amount, 2)
  IN  IF one # 0
      THEN << [match_type |-> "fuzzy_single",
               confidence |-> sorted[one].keyword_score,
               revenue |-> revenue,
               expenses |-> <<sorted[one].expense>>,
               balance |-> revenue_amount - abs_amount(sorted[one].expense)] >>
      ELSE IF combo # <<>>
      THEN << [match_type |-> multi_name(Len(combo)),
               confidence |->
                 SumSeq([i \in 1..Len(combo) |-> sorted[combo[i]].keyword_score]),
               revenue |-> revenue,
               expenses |-> [i \in 1..Len(combo) |-> sorted[combo[i]].expense],
               balance |-> revenue_amount - combo_total(sorted, combo)] >>
      ELSE <<>>

\* EntityMatcher._find_best_expense_combination: <<>> is None, <<m>> a match.
_find_best_expense_combination(revenue, potential_expenses) ==
  LET revenue_amount == abs_amount(revenue)
      sorted == sort_by_score(potential_expenses)
      one == single_scan(sorted, revenue_amount, 1)
      combo == size_scan(sorted, revenue_amount, 2)
  IN  IF one # 0
      THEN << [match_type |-> "fuzzy_single",
               confidence |-> sorted[one].keyword_score,
               revenue |-> revenue,
               expenses |-> <<sorted[one].expense>>,
               balance |-> revenue_amount - abs_amount(sorted[one].expense)] >>
      ELSE IF combo # <<>>
      THEN << [match_type |-> multi_name(Len(combo)),
               confidence |->
                 SumSeq([i \in 1..Len(combo) |-> sorted[combo[i]].keyword_score])
                   \div Len(combo),
               revenue |-> revenue,
               expenses |-> [i \in 1..Len(combo) |-> sorted[combo[i]].expense],
               balance |-> revenue_amount - combo_total(sorted, combo)] >>
      ELSE <<>>

\* Lines 236-240 / 295-299: record a found match in the stage's loop state.
stage_commit(acc, revenue, best_match) ==
  IF best_match = <<>> THEN acc
  ELSE [matches |-> Append(acc.matches, best_match[1]),
        matched_expense_ids |->
          acc.matched_expense_ids \cup index_set(best_match[1].expenses),
        matched_revenue_ids |->
          acc.matched_revenue_ids \cup {revenue.original_index}]

\* -------------------------------------------------------- keyword stage
\* keyword_candidates without the skip of consumed expenses.
keyword_candidates_reuse(revenue, expenses, matched_expense_ids, min_keywords) ==
  LET revenue_keywords == extract_keywords(revenue.description)
      shared(e) == revenue_keywords \cap extract_keywords(e.description)
      sel == SelectSeq(expenses, LAMBDA e : Cardinality(shared(e)) >= min_keywords)
  IN  [i \in 1..Len(sel) |->
         [expense |-> sel[i],
          shared_keywords |-> shared(sel[i]),
          keyword_score |->
            (Cardinality(shared(sel[i])) * SCALE)
              \div Max(Cardinality(revenue_keywords),
                       Cardinality(extract_keywords(sel[i].description)))]]

\* keyword_candidates accepting an expense that shares any keyword at all.
keyword_candidates_any_shared(revenue, expenses, matched_expense_ids, min_keywords) ==
  LET revenue_keywords == extract_keywords(revenue.description)
      shared(e) == revenue_keywords \cap extract_keywords(e.description)
      sel == SelectSeq(expenses, LAMBDA e :
               /\ e.original_index \notin matched_expense_ids
               /\ Cardinality(shared(e)) >= 1)
  IN  [i \in 1..Len(sel) |->
         [expense |-> sel[i],
          shared_keywords |-> shared(sel[i]),
          keyword_score |->
            (Cardinality(shared(sel[i])) * SCALE)
              \div Max(Cardinality(revenue_keywords),
                       Cardinality(extract_keywords(sel[i].description)))]]

\* Lines 209-228: the candidates of one revenue.
keyword_candidates(revenue, expenses, matched_expense_ids, min_keywords) ==
  LET revenue_keywords == extract_keywords(revenue.description)
      shared(e) == revenue_keywords \cap extract_keywords(e.description)
      sel == SelectSeq(expenses, LAMBDA e :
               /\ e.original_index \notin matched_expense_ids
               /\ Cardinality(shared(e)) >= min_keywords)
  IN  [i \in 1..Len(sel) |->
         [expense |-> sel[i],
          shared_keywords |-> shared(sel[i]),
          keyword_score |->
            (Cardinality(shared(sel[i])) * SCALE)
              \div Max(Cardinality(revenue_keywords),
                       Cardinality(extract_keywords(sel[i].description)))]]

RECURSIVE keyword_loop(_, _, _, _, _)
keyword_loop(expenses, revenues, min_keywords, i, acc) ==
  IF i > Len(revenues) THEN acc
  ELSE LET revenue == revenues[i]
           potential_expenses ==
             keyword_candidates(revenue, expenses, acc.matched_expense_ids,
                                min_keywords)
       IN  keyword_loop(expenses, revenues, min_keywords, i + 1,
             IF Cardinality(extract_keywords(revenue.description)) < min_keywords
             THEN acc
             ELSE IF potential_expenses = <<>> THEN acc
             ELSE stage_commit(acc, revenue,
                    _find_best_expense_combination(revenue, potential_expenses)))

keyword_match(expenses, revenues, min_keywords) ==
  stage_result(keyword_loop(expenses, revenues, min_keywords, 1, stage_start),
               expenses, revenues)

\* ---------------------------------------------------------- fuzzy stage
\* fuzzy_candidates without the threshold test.
fuzzy_candidates_unfiltered(revenue, expenses, matched_expense_ids) ==
  LET sim(e) == calculate_similarity(revenue.description, e.description)
      sel == SelectSeq(expenses, LAMBDA e : e.original_index \notin matched_expense_ids)
  IN  [i \in 1..Len(sel) |->
         [expense |-> sel[i], similarity |-> sim(sel[i]),
          keyword_score |-> sim(sel[i])]]

\* Lines 271-287: the candidates of one revenue.
fuzzy_candidates(revenue, expenses, matched_expense_ids) ==
  LET sim(e) == calculate_similarity(revenue.description, e.description)
      sel == SelectSeq(expenses, LAMBDA e :
               /\ e.original_index \notin matched_expense_ids
               /\ sim(e) >= FUZZY_MATCH_THRESHOLD)
  IN  [i \in 1..Len(sel) |->
         [expense |-> sel[i], similarity |-> sim(sel[i]),
          keyword_score |-> sim(sel[i])]]

RECURSIVE fuzzy_loop(_, _, _, _)
fuzzy_loop(expenses, revenues, i, acc) ==
  IF i > Len(revenues) THEN acc
  ELSE LET revenue == revenues[i]
           potential_expenses ==
             fuzzy_candidates(revenue, expenses, acc.matched_expense_ids)
       IN  fuzzy_loop(expenses, revenues, i + 1,
             IF potential_expenses = <<>> THEN acc
             ELSE stage_commit(acc, revenue,
                    _find_best_expense_combination(revenue, potential_expenses)))

fuzzy_match(expenses, revenues) ==
  stage_result(fuzzy_loop(expenses, revenues, 1, stage_start), expenses, revenues)

\* ------------------------------------------------------------- cascade
\* EntityMatcher.auto_match_all; `stages` records what each stage was given
\* and what it returned.
auto_match_all(df) ==
  LET expenses == SelectSeq(df, LAMBDA t : transaction_type(t) = "expense")
      revenues == SelectSeq(df, LAMBDA t : transaction_type(t) = "revenue")
      ex == exact_match(expenses, revenues)
      kw == keyword_match(ex.remaining_expenses, ex.remaining_revenues,
                          MIN_KEYWORDS)
      fz == fuzzy_match(kw.remaining_expenses, kw.remaining_revenues)
      given(e, r, out) == [in_expenses |-> e, in_revenues |-> r, out |-> out]
  IN  [all_matches |-> ex.matches \o kw.matches \o fz.matches,
       expenses |-> fz.remaining_expenses,
       revenues |-> fz.remaining_revenues,
       stages |-> << given(expenses, revenues, ex),
                     given(ex.remaining_expenses, ex.remaining_revenues, kw),
                     given(kw.remaining_expenses, kw.remaining_revenues, fz) >>]

\* --------------------------------------------------- balance validator
\* BalanceCalculator.calculate_match_balance; a group without a revenue has
\* revenue <<>> (match.get("revenue", {})).
calculate_match_balance(match) ==
  LET revenue_amount == IF match.revenue = <<>> THEN 0 ELSE match.revenue.amount
      expense_total ==
        SumSeq([i \in 1..Len(match.expenses) |-> match.expenses[i].amount])
  IN  revenue_amount + expense_total

\* is_balanced with the tolerance bound included.
is_balanced_inclusive(match) ==
  Abs(calculate_match_balance(match)) <= BALANCE_TOLERANCE

\* is_balanced accepting a zero residual only.
is_balanced_zero_only(match) == calculate_match_balance(match) = 0

\* BalanceCalculator.is_balanced
is_balanced(match) == Abs(calculate_match_balance(match)) < BALANCE_TOLERANCE

\* f"{balance:.2f}": the balance rounded to hundredths (the model's amounts
\* never lie half-way between two hundredths).
format_2f(balance) ==
  IF balance < 0 THEN -((5 - balance) \div 10) ELSE (balance + 5) \div 10

\* A validator message: its text and the formatted balance it carries.
message_of(text) == [text |-> text, balance |-> 0]

\* validate_match without its balance check.
validate_match_unbalanced_ok(match) ==
  IF match.revenue = <<>>
  THEN [is_valid |-> FALSE, message |-> message_of("No revenue transaction in match")]
  ELSE IF match.expenses = <<>>
  THEN [is_valid |-> FALSE, message |-> message_of("No expense transactions in match")]
  ELSE [is_valid |-> TRUE, message |-> message_of("Match is valid")]

\* validate_match testing the expenses before the revenue.
validate_match_expenses_first(match) ==
  IF match.expenses = <<>>
  THEN [is_valid |-> FALSE, message |-> message_of("No expense transactions in match")]
  ELSE IF match.revenue = <<>>
  THEN [is_valid |-> FALSE, message |-> message_of("No revenue transaction in match")]
  ELSE IF ~is_balanced(match)
  THEN [is_valid |-> FALSE,
        message |-> [text |-> "Match not balanced. Balance: ",
                     balance |-> format_2f(calculate_match_balance(match))]]
  ELSE [is_valid |-> TRUE, message |-> message_of("Match is valid")]

\* BalanceCalculator.validate_match
validate_match(match) ==
  IF match.revenue = <<>>
  THEN [is_valid |-> FALSE, message |-> message_of("No revenue transaction in match")]
  ELSE IF match.expenses = <<>>
  THEN [is_valid |-> FALSE, message |-> message_of("No expense transactions in match")]
  ELSE IF ~is_balanced(match)
  THEN [is_valid |-> FALSE,
        message |-> [text |-> "Match not balanced. Balance: ",
                     balance |-> format_2f(calculate_match_balance(match))]]
  ELSE [is_valid |-> TRUE, message |-> message_of("Match is valid")]

\* int(round(x * 100)) of a non-negative amount (the model's amounts never
\* lie half-way between two cents).
to_cents(amount) == (amount + 5) \div 10

\* A backtracking walk that takes the current candidate whenever the rest of
\* the target can be made from the candidates before it.
RECURSIVE dp_backtrack_take_biased(_, _, _, _, _, _)
dp_backtrack_take_biased(dp, expenses, expense_cents, i, j, result) ==
  IF ~(i > 0 /\ j > 0) THEN result
  ELSE IF j >= expense_cents[i] /\ dp[i - 1, j - expense_cents[i]]
       THEN dp_backtrack_take_biased(dp, expenses, expense_cents, i - 1,
                                     j - expense_cents[i], Append(result, expenses[i]))
       ELSE dp_backtrack_take_biased(dp, expenses, expense_cents, i - 1, j, result)

\* Lines 154-167 of find_expense_combinations_dp: the backtracking loop from
\* (i, j) with the expenses collected so far.
RECURSIVE dp_backtrack(_, _, _, _, _, _)
dp_backtrack(dp, expenses, expense_cents, i, j, result) ==
  IF ~(i > 0 /\ j > 0) THEN result
  ELSE IF dp[i - 1, j]
       THEN dp_backtrack(dp, expenses, expense_cents, i - 1, j, result)
       ELSE dp_backtrack(dp, expenses, expense_cents, i - 1,
                         j - expense_cents[i], Append(result, expenses[i]))

\* BalanceCalculator.find_expense_combinations_dp for a target of at least 0
\* cents: <<>> is None, <<result>> the list returned.
find_expense_combinations_dp(target_amount, expenses) ==
  LET target_cents == to_cents(target_amount)
      expense_cents == [i \in 1..Len(expenses) |-> to_cents(Abs(expenses[i].amount))]
      n == Len(expenses)
      dp[i \in 0..n, j \in 0..target_cents] ==
        IF j = 0 THEN TRUE
        ELSE IF i = 0 THEN FALSE
        ELSE \/ dp[i - 1, j]
             \/ j >= expense_cents[i] /\ dp[i - 1, j - expense_cents[i]]
      result == dp_backtrack(dp, expenses, expense_cents, n, target_cents, <<>>)
  IN  IF ~dp[n, target_cents] THEN <<>>
      ELSE IF result = <<>> THEN <<>> ELSE <<result>>

\* validate_all_matches putting each invalid group at the front of its list.
validate_all_matches_prepend(matches) ==
  [valid_matches |-> SelectSeq(matches, LAMBDA m : validate_match(m).is_valid),
   invalid_matches |->
     LET bad == SelectSeq(matches, LAMBDA m : ~validate_match(m).is_valid)
     IN  [i \in 1..Len(bad) |->
            [match |-> bad[Len(bad) + 1 - i],
             validation_error |-> validate_match(bad[Len(bad) + 1 - i]).message]]]

\* BalanceCalculator.validate_all_matches
validate_all_matches(matches) ==
  [valid_matches |-> SelectSeq(matches, LAMBDA m : validate_match(m).is_valid),
   invalid_matches |->
     LET bad == SelectSeq(matches, LAMBDA m : ~validate_match(m).is_valid)
     IN  [i \in 1..Len(bad) |->
            [match |-> bad[i], validation_error |-> validate_match(bad[i]).message]]]

\* calculate_total_balance listing every group as a discrepancy.
calculate_total_balance_all_listed(matches) ==
  LET revenue_amount(m) == Abs(IF m.revenue = <<>> THEN 0 ELSE m.revenue.amount)
      expense_total(m) ==
        SumSeq([i \in 1..Len(m.expenses) |-> Abs(m.expenses[i].amount)])
      total_revenue == SumSeq([k \in 1..Len(matches) |-> revenue_amount(matches[k])])
      total_expenses == SumSeq([k \in 1..Len(matches) |-> expense_total(matches[k])])
  IN  [total_matches |-> Len(matches),
       balanced_matches |-> Len(SelectSeq(matches, is_balanced)),
       unbalanced_matches |-> Len(SelectSeq(matches, LAMBDA m : ~is_balanced(m))),
       total_revenue |-> total_revenue,
       total_expenses |-> total_expenses,
       net_balance |-> total_revenue - total_expenses,
       balance_discrepancies |->
         [k \in 1..Len(matches) |->
            [match |-> matches[k],
             balance |-> calculate_match_balance(matches[k]),
             revenue_amount |-> revenue_amount(matches[k]),
             expense_total |-> expense_total(matches[k])]]]

\* BalanceCalculator.calculate_total_balance
calculate_total_balance(matches) ==
  LET revenue_amount(m) == Abs(IF m.revenue = <<>> THEN 0 ELSE m.revenue.amount)
      expense_total(m) ==
        SumSeq([i \in 1..Len(m.expenses) |-> Abs(m.expenses[i].amount)])
      total_revenue == SumSeq([k \in 1..Len(matches) |-> revenue_amount(matches[k])])
      total_expenses == SumSeq([k \in 1..Len(matches) |-> expense_total(matches[k])])
      unbalanced == SelectSeq(matches, LAMBDA m : ~is_balanced(m))
  IN  [total_matches |-> Len(matches),
       balanced_matches |-> Len(SelectSeq(matches, is_balanced)),
       unbalanced_matches |-> Len(unbalanced),
       total_revenue |-> total_revenue,
       total_expenses |-> total_expenses,
       net_balance |-> total_revenue - total_expenses,
       balance_discrepancies |->
         [k \in 1..Len(unbalanced) |->
            [match |-> unbalanced[k],
             balance |-> calculate_match_balance(unbalanced[k]),
             revenue_amount |-> revenue_amount(unbalanced[k]),
             expense_total |-> expense_total(unbalanced[k])]]]

\* str(n) of a non-negative integer, as its sequence of decimal digits.
RECURSIVE decimal(_)
decimal(n) == IF n < 10 THEN <<n>> ELSE Append(decimal(n \div 10), n % 10)

\* The format spec 0<width>d: zeros in front up to the width, never cut.
RECURSIVE zero_pad(_, _)
zero_pad(digits, width) ==
  IF Len(digits) >= width THEN digits ELSE zero_pad(<<0>> \o digits, width)

\* calculate_match_group_id giving every group the id of position 0.
calculate_match_group_id_constant(match_index) == <<"MG_", 0, 0, 0, 0>>

\* BalanceCalculator.calculate_match_group_id: f"MG_{match_index:04d}", the
\* prefix followed by the digits.
calculate_match_group_id(match_index) ==
  <<"MG_">> \o zero_pad(decimal(match_index), 4)

\* One row's stamp columns as process_transactions leaves them.
unmatched_stamp ==
  [match_status |-> "unmatched", match_group_id |-> <<>>, match_confidence |-> <<>>]

\* stamp_group stamping the expenses of the group only.
stamp_group_expenses_only(df, match, idx) ==
  LET stamp == [match_status |-> "matched",
                match_group_id |-> calculate_match_group_id(idx),
                match_confidence |-> <<match.confidence>>]
  IN  [i \in DOMAIN df |-> IF i \in index_set(match.expenses) THEN stamp ELSE df[i]]

\* Lines 411-427 for one group: stamp its revenue and its expenses.
stamp_group(df, match, idx) ==
  LET stamp == [match_status |-> "matched",
                match_group_id |-> calculate_match_group_id(idx),
                match_confidence |-> <<match.confidence>>]
      members == (IF match.revenue = <<>> THEN {}
                  ELSE {match.revenue.original_index})
                   \cup index_set(match.expenses)
  IN  [i \in DOMAIN df |-> IF i \in members THEN stamp ELSE df[i]]

\* BalanceCalculator.assign_match_groups: enumerate(matches) from position k
\* (group ids count from 0).
RECURSIVE assign_from(_, _, _)
assign_from(df, matches, k) ==
  IF k > Len(matches) THEN df
  ELSE assign_from(stamp_group(df, matches[k], k - 1), matches, k + 1)

assign_match_groups(df, matches) == assign_from(df, matches, 1)

\* ------------------------------------------------------ review ranking
\* find_potential_matches(..., top_n: int = 5)
REVIEW_TOP_N == 5

\* A descending sort that leaves candidates of equal score in reverse order.
RECURSIVE sort_by_combined_ties_reversed(_)
sort_by_combined_ties_reversed(s) ==
  IF s = <<>> THEN <<>>
  ELSE LET front == sort_by_combined_ties_reversed(SubSeq(s, 1, Len(s) - 1))
           x == s[Len(s)]
           k == Cardinality({i \in 1..Len(front) :
                               front[i].combined_score > x.combined_score})
       IN  SubSeq(front, 1, k) \o <<x>> \o SubSeq(front, k + 1, Len(front))

\* potential_matches.sort(key=combined_score, reverse=True): stable.
RECURSIVE sort_by_combined(_)
sort_by_combined(s) ==
  IF s = <<>> THEN <<>>
  ELSE LET front == sort_by_combined(SubSeq(s, 1, Len(s) - 1))
           x == s[Len(s)]
           k == Cardinality({i \in 1..Len(front) :
                               front[i].combined_score >= x.combined_score})
       IN  SubSeq(front, 1, k) \o <<x>> \o SubSeq(front, k + 1, Len(front))

\* Lines 384-422: the scores of one expense against a revenue.
score_candidate(revenue, expense) ==
  LET revenue_amount == abs_amount(revenue)
      revenue_keywords == extract_keywords(revenue.description)
      expense_keywords == extract_keywords(expense.description)
      shared == revenue_keywords \cap expense_keywords
      fuzzy_score == calculate_similarity(revenue.description, expense.description)
      keyword_score ==
        IF revenue_keywords # {} /\ expense_keywords # {}
        THEN (Cardinality(shared) * SCALE)
               \div Max(Cardinality(revenue_keywords), Cardinality(expense_keywords))
        ELSE 0
      amount_diff == Abs(abs_amount(expense) - revenue_amount)
      amount_score ==
        IF revenue_amount > 0
        THEN Max(0, SCALE - (amount_diff * SCALE) \div revenue_amount)
        ELSE 0
  IN  [expense |-> expense,
       fuzzy_score |-> fuzzy_score,
       keyword_score |-> keyword_score,
       amount_score |-> amount_score,
       combined_score |->
         (fuzzy_score * 4 + keyword_score * 4 + amount_score * 2) \div 10,
       shared_keywords |-> shared]

\* EntityMatcher.find_potential_matches
find_potential_matches(revenue, expenses, top_n) ==
  LET potential_matches ==
        sort_by_combined([i \in 1..Len(expenses) |->
                            score_candidate(revenue, expenses[i])])
  IN  SubSeq(potential_matches, 1, Min(top_n, Len(potential_matches)))

\* generate_review_items leaving out the revenues without a candidate.
generate_review_items_with_candidates(unmatched_revenues, unmatched_expenses) ==
  LET kept == SelectSeq(unmatched_revenues, LAMBDA r :
                find_potential_matches(r, unmatched_expenses, REVIEW_TOP_N) # <<>>)
  IN  [i \in 1..Len(kept) |->
         [revenue |-> kept[i],
          potential_expenses |->
            find_potential_matches(kept[i], unmatched_expenses, REVIEW_TOP_N),
          status |-> "pending_review"]]

\* EntityMatcher.generate_review_items
generate_review_items(unmatched_revenues, unmatched_expenses) ==
  [i \in 1..Len(unmatched_revenues) |->
     [revenue |-> unmatched_revenues[i],
      potential_expenses |->
        find_potential_matches(unmatched_revenues[i], unmatched_expenses,
                               REVIEW_TOP_N),
      status |-> "pending_review"]]

\* ================================================================ session
\* The session keys of app.py: processed_df_json (table), matches,
\* review_items, updated_df_json, unmatched_expenses_json and
\* unmatched_revenues_json (present once has_results); response is the last
\* handler's reply, cascade what the stages of the last auto_match_all were
\* given and returned, rerun the result of applying exact_match to the pools
\* its own first run left over.
VARIABLES table, matches, review_items, updated_df, unmatched_expenses,
          unmatched_revenues, has_results, response, cascade, rerun,
          solver_input, solver_result, solver_checks, call_input, call_result,
          in_flight, acknowledged, overlapped

session == <<matches, review_items, updated_df, unmatched_expenses,
             unmatched_revenues, has_results>>

vars == <<table, matches, review_items, updated_df, unmatched_expenses,
          unmatched_revenues, has_results, response, cascade, rerun,
          solver_input, solver_result, solver_checks, call_input, call_result,
          in_flight, acknowledged, overlapped>>

\* One direct call of a BalanceCalculator or EntityMatcher method: the method
\* and its arguments, and what it returned.
calls == <<call_input, call_result>>

\* One call of _find_best_expense_combination: its arguments and, once it has
\* returned, its result and the number of combinations it tested (line 348).
solver == <<solver_input, solver_result, solver_checks>>

\* The confirm_match requests being served at once: for each worker what its
\* request read from the session (<<>> when it serves none), the groups whose
\* confirmation a worker reported as successful, and whether a request ever
\* read the session while another was between its read and its write.
workers == <<in_flight, acknowledged, overlapped>>

\* The workers serving requests of one session.
Workers == {"w1", "w2"}

\* The original_index values of the table: the positions of its rows from 0.
Ids == 0..(Len(table) - 1)

\* The transactions a row of the table is drawn from: [amount, description].
txn(amount, description) == [amount |-> amount, description |-> description]

SessionTxns ==
  {txn(200, "Acme Corp Fee"),
   txn(-200, "acme corp fee"),
   txn(-204, "Rent"),
   txn(-100, "Acme Corp payment A"),
   txn(-100, "Rent"),
   txn(-180, "Rent")}

\* The revenues and expenses the cascade is run on.
CascadeRevenues ==
  {txn(200, "Acme Corp Fee"), txn(200, "Acme fee"), txn(300, "Acme Corp Fee")}

CascadeExpenses ==
  {txn(-200, "acme corp fee"),
   txn(-204, "acme corp fee"),
   txn(-210, "acme corp fee"),
   txn(-100, "acme corp fee"),
   txn(-100, "Acme Corp payment A"),
   txn(-100, "Acme fees"),
   txn(-200, "Acme fees"),
   txn(-100, "Acme fee")}

\* All sequences of length n over S.
Tuples(S, n) == [1..n -> S]

\* The processed table as a list of row dicts, in index order.
rows_of(t) ==
  [k \in 1..Len(t) |->
     [original_index |-> k - 1, amount |-> t[k].amount,
      description |-> t[k].description]]

no_request == [has_revenue_index |-> FALSE, revenue_index |-> 0,
               expense_indices |-> {}]
no_response == [handler |-> "none", success |-> FALSE, status |-> 0,
                prefix |-> "", message |-> message_of("")]

reply(handler, success, status, prefix, message) ==
  [handler |-> handler, success |-> success, status |-> status,
   prefix |-> prefix, message |-> message]

InitSession ==
  /\ matches = <<>>
  /\ review_items = <<>>
  /\ updated_df = [i \in Ids |-> unmatched_stamp]
  /\ unmatched_expenses = <<>>
  /\ unmatched_revenues = <<>>
  /\ has_results = FALSE
  /\ response = no_response
  /\ cascade = <<>>
  /\ rerun = <<>>
  /\ solver_result = <<>>
  /\ solver_checks = 0
  /\ call_result = <<>>
  /\ in_flight = [w \in Workers |-> <<>>]
  /\ acknowledged = {}
  /\ overlapped = FALSE

Init ==
  /\ table \in Tuples(SessionTxns, MaxTxns)
  /\ solver_input = <<>>
  /\ call_input = <<>>
  /\ InitSession

\* The cascade alone: a table of MaxRevenues revenues and MaxExpenses expenses.
InitCascade ==
  /\ \E r \in Tuples(CascadeRevenues, MaxRevenues) :
       \E e \in Tuples(CascadeExpenses, MaxExpenses) : table = r \o e
  /\ solver_input = <<>>
  /\ call_input = <<>>
  /\ InitSession

\* auto_match running the cascade on the stored unmatched pools, once there
\* are any, in place of the processed table.
AutoMatch_resumed ==
  \E result \in {auto_match_all(IF has_results
                                 THEN unmatched_revenues \o unmatched_expenses
                                 ELSE rows_of(table))} :
  \E valid_matches \in {validate_all_matches(result.all_matches).valid_matches} :
      /\ matches' = valid_matches
      /\ updated_df' = assign_match_groups([i \in Ids |-> unmatched_stamp],
                                           valid_matches)
      /\ review_items' = generate_review_items(result.revenues, result.expenses)
      /\ unmatched_expenses' = result.expenses
      /\ unmatched_revenues' = result.revenues
      /\ has_results' = TRUE
      /\ cascade' = result.stages
      /\ response' = reply("auto_match", TRUE, 200, "", message_of(""))
      /\ UNCHANGED <<table, rerun, solver, calls, workers>>

\* app.py auto_match (POST /auto_match)
AutoMatch ==
  \E result \in {auto_match_all(rows_of(table))} :
  \E valid_matches \in {validate_all_matches(result.all_matches).valid_matches} :
      /\ matches' = valid_matches
      /\ updated_df' = assign_match_groups([i \in Ids |-> unmatched_stamp],
                                           valid_matches)
      /\ review_items' = generate_review_items(result.revenues, result.expenses)
      /\ unmatched_expenses' = result.expenses
      /\ unmatched_revenues' = result.revenues
      /\ has_results' = TRUE
      /\ cascade' = result.stages
      /\ response' = reply("auto_match", TRUE, 200, "", message_of(""))
      /\ UNCHANGED <<table, rerun, solver, calls, workers>>

\* app.py confirm_match, lines 296-312: the candidate group; its revenue is
\* the first pool row with the requested index.
candidate_match(revenue_index, expense_indices) ==
  LET found == SelectSeq(unmatched_revenues,
                         LAMBDA t : t.original_index = revenue_index)
      revenue == found[1]
      selected_expenses ==
        SelectSeq(unmatched_expenses, LAMBDA t : t.original_index \in expense_indices)
  IN  [match_type |-> "manual",
       confidence |-> SCALE,
       revenue |-> revenue,
       expenses |-> selected_expenses,
       balance |-> revenue.amount
                     + SumSeq([i \in 1..Len(selected_expenses) |->
                                 selected_expenses[i].amount])]

\* app.py confirm_match (POST /confirm_match)
ConfirmMatch(req) ==
  /\ UNCHANGED <<table, cascade, rerun, solver, calls, workers>>
  /\ IF (~req.has_revenue_index \/ req.revenue_index = 0)
          \/ req.expense_indices = {}
     THEN \* lines 279-283: `not revenue_index or not expense_indices`
          /\ response' = reply("confirm_match", FALSE, 400, "",
                               message_of("Invalid match data"))
          /\ UNCHANGED session
     ELSE IF ~has_results
     THEN \* lines 291-294: pd.read_json(None) raises; line 366 answers 500
          /\ response' = reply("confirm_match", FALSE, 500, "",
                               message_of("read_json error"))
          /\ UNCHANGED session
     ELSE IF req.revenue_index \notin index_set(unmatched_revenues)
     THEN \* line 299: .iloc[0] raises IndexError; line 366 answers 500
          /\ response' = reply("confirm_match", FALSE, 500, "",
                               message_of("single positional indexer is out-of-bounds"))
          /\ UNCHANGED session
     ELSE \E new_match \in {candidate_match(req.revenue_index, req.expense_indices)} :
          \E checked \in {validate_match(new_match)} :
          LET new_matches == Append(matches, new_match)
              new_expenses == drop_ids(unmatched_expenses, req.expense_indices)
              new_revenues == drop_ids(unmatched_revenues, {req.revenue_index})
          IN  IF ~checked.is_valid
              THEN /\ response' = reply("confirm_match", FALSE, 400,
                                        "Invalid match: ", checked.message)
                   /\ UNCHANGED session
              ELSE /\ matches' = new_matches
                   /\ updated_df' = assign_match_groups(updated_df, new_matches)
                   /\ unmatched_expenses' = new_expenses
                   /\ unmatched_revenues' = new_revenues
                   /\ review_items' = generate_review_items(new_revenues, new_expenses)
                   /\ has_results' = has_results
                   /\ response' = reply("confirm_match", TRUE, 200, "",
                                        message_of("Match confirmed successfully"))

\* The requests the model sends: a missing or present revenue_index, and
\* any set of expense indices of the table.
Requests ==
  {no_request} \cup
  [has_revenue_index : {TRUE}, revenue_index : Ids, expense_indices : SUBSET Ids]

Next ==
  \/ AutoMatch
  \/ \E req \in Requests : ConfirmMatch(req)

Spec == Init /\ [][Next]_vars

\* EntityMatcher.exact_match applied to the pools its first run returned.
ExactAgain ==
  /\ cascade # <<>>
  /\ rerun = <<>>
  /\ rerun' = << exact_match(cascade[1].out.remaining_expenses,
                             cascade[1].out.remaining_revenues) >>
  /\ UNCHANGED <<table, session, response, cascade, solver, calls, workers>>

NextCascade == AutoMatch \/ ExactAgain

SpecCascade == InitCascade /\ [][NextCascade]_vars

\* ------------------------------------------------- the solver on its own
\* A candidate as keyword_match and fuzzy_match build it: the expense row and
\* its ranking score.
candidate(original_index, amount, score) ==
  [expense |-> [original_index |-> original_index, amount |-> -amount,
                description |-> "Rent"],
   similarity |-> score, keyword_score |-> score]

\* The candidate lists given to the solver: `high` well-ranked expenses of 100,
\* `fillers` expenses of 700 ranked between, `low` badly-ranked expenses of
\* 100, in ranked order or (reversed) in the opposite order.
candidate_list(high, fillers, low, reversed) ==
  LET n == high + fillers + low
      ranked == [i \in 1..n |->
                   IF i <= high THEN [amount |-> 100, score |-> (9 * SCALE) \div 10]
                   ELSE IF i <= high + fillers
                        THEN [amount |-> 700, score |-> (7 * SCALE) \div 10]
                        ELSE [amount |-> 100, score |-> (5 * SCALE) \div 10]]
  IN  [i \in 1..n |->
         LET c == ranked[IF reversed THEN n + 1 - i ELSE i]
         IN  candidate(i - 1, c.amount, c.score)]

SolverTargets == {100, 200, 500, 600, 800}

SolverInputs ==
  {[revenue |-> [original_index |-> MaxCandidates, amount |-> target,
                 description |-> "Rent"],
    potential_expenses |-> candidate_list(high, fillers, low, reversed)] :
     <<high, fillers, low, reversed, target>> \in
       {x \in (0..MaxUnits) \X (0..MaxCandidates) \X (0..MaxUnits)
                \X BOOLEAN \X SolverTargets :
          x[1] + x[2] + x[3] <= MaxCandidates}}

InitSolver ==
  /\ table = <<>>
  /\ solver_input \in SolverInputs
  /\ call_input = <<>>
  /\ InitSession

\* One call of EntityMatcher._find_best_expense_combination.
FindBest ==
  /\ solver_input # <<>>
  /\ solver_result = <<>>
  /\ solver_result' = << _find_best_expense_combination(
                           solver_input.revenue, solver_input.potential_expenses) >>
  /\ solver_checks' = combination_checks(solver_input.revenue,
                                         solver_input.potential_expenses)
  /\ UNCHANGED <<table, session, response, cascade, rerun, solver_input, calls, workers>>

NextSolver == FindBest

SpecSolver == InitSolver /\ [][NextSolver]_vars

\* ------------------------------------- direct calls of BalanceCalculator
\* The expense dictionaries given to find_expense_combinations_dp: amounts of
\* 0, 0.004, 0.010, 0.014, 0.016 and 0.020, numbered by position.
DPAmounts == {0, -4, -10, -14, -16, -20}

\* Positive targets: 0.004 (0 cents), 0.010, 0.024 (2 cents), 0.030, 0.040.
DPTargets == {4, 10, 24, 30, 40}

\* The lists of at most n rows over the amounts in S, numbered by position.
dict_lists(S, n) ==
  {[i \in 1..Len(amounts) |->
      [original_index |-> i - 1, amount |-> amounts[i], description |-> "Rent"]] :
     amounts \in UNION {Tuples(S, k) : k \in 0..n}}

DPInputs ==
  [method : {"find_expense_combinations_dp"},
   target_amount : DPTargets,
   expenses : dict_lists(DPAmounts, MaxDPExpenses)]

\* The groups given to validate_match and is_balanced: no revenue or a revenue
\* of 0.200, and at most MaxGroupExpenses expenses; 10 is an expense entry of
\* positive sign.
GroupAmounts == {-200, -190, -196, -214, 10}

Groups ==
  [revenue : {<<>>, [original_index |-> MaxGroupExpenses, amount |-> 200,
                     description |-> "Rent"]},
   expenses : dict_lists(GroupAmounts, MaxGroupExpenses)]

GroupInputs == [method : {"validate_match", "is_balanced"}, match : Groups]

\* The lists of groups given to validate_all_matches and
\* calculate_total_balance: at most MaxGroups
\* groups, each with or without a revenue and with no expense, an expense of
\* 0.200 or one of 0.190.
ListGroups ==
  {g \in Groups :
     /\ Len(g.expenses) <= 1
     /\ \A i \in DOMAIN g.expenses : g.expenses[i].amount \in {-200, -190}}

GroupLists == UNION {Tuples(ListGroups, k) : k \in 0..MaxGroups}

ListInputs ==
  [method : {"validate_all_matches", "calculate_total_balance"}, matches : GroupLists]

CalculatorInputs == DPInputs \cup GroupInputs \cup ListInputs

InitCalculator ==
  /\ table = <<>>
  /\ solver_input = <<>>
  /\ call_input \in CalculatorInputs
  /\ InitSession

\* One call of BalanceCalculator.find_expense_combinations_dp.
FindCombinationDP ==
  /\ call_input # <<>>
  /\ call_input.method = "find_expense_combinations_dp"
  /\ call_result = <<>>
  /\ call_result' = << find_expense_combinations_dp(call_input.target_amount,
                                                    call_input.expenses) >>
  /\ UNCHANGED <<table, session, response, cascade, rerun, solver, call_input, workers>>

\* One call of BalanceCalculator.validate_match.
ValidateMatch ==
  /\ call_input # <<>>
  /\ call_input.method = "validate_match"
  /\ call_result = <<>>
  /\ call_result' = << validate_match(call_input.match) >>
  /\ UNCHANGED <<table, session, response, cascade, rerun, solver, call_input, workers>>

\* One call of BalanceCalculator.is_balanced, with the balance it computes.
IsBalanced ==
  /\ call_input # <<>>
  /\ call_input.method = "is_balanced"
  /\ call_result = <<>>
  /\ call_result' = << [balance |-> calculate_match_balance(call_input.match),
                        is_balanced |-> is_balanced(call_input.match)] >>
  /\ UNCHANGED <<table, session, response, cascade, rerun, solver, call_input, workers>>

\* One call of BalanceCalculator.validate_all_matches.
ValidateAll ==
  /\ call_input # <<>>
  /\ call_input.method = "validate_all_matches"
  /\ call_result = <<>>
  /\ call_result' = << validate_all_matches(call_input.matches) >>
  /\ UNCHANGED <<table, session, response, cascade, rerun, solver, call_input, workers>>

\* One call of BalanceCalculator.calculate_total_balance.
TotalBalance ==
  /\ call_input # <<>>
  /\ call_input.method = "calculate_total_balance"
  /\ call_result = <<>>
  /\ call_result' = << calculate_total_balance(call_input.matches) >>
  /\ UNCHANGED <<table, session, response, cascade, rerun, solver, call_input, workers>>

NextCalculator ==
  \/ FindCombinationDP
  \/ ValidateMatch
  \/ IsBalanced
  \/ ValidateAll
  \/ TotalBalance

SpecCalculator == InitCalculator /\ [][NextCalculator]_vars

\* ------------------------------------ direct calls of the review ranking
\* The unmatched expense pools given to find_potential_matches: at most
\* MaxPool rows, numbered by position.
PoolTxns == {txn(-200, "acme corp fee"), txn(-190, "Acme fees"), txn(-500, "Rent")}

pools_upto(n) ==
  {[i \in 1..Len(rows) |->
      [original_index |-> i - 1, amount |-> rows[i].amount,
       description |-> rows[i].description]] :
     rows \in UNION {Tuples(PoolTxns, k) : k \in 0..n}}

Pools == pools_upto(MaxPool)

\* A revenue of 0.200 and one whose abs_amount is 0.
ReviewRevenues ==
  {[original_index |-> MaxPool, amount |-> a, description |-> "Acme Corp Fee"] :
     a \in {200, 0}}

RankingInputs ==
  [method : {"find_potential_matches"}, revenue : ReviewRevenues,
   expenses : Pools, top_n : {2, REVIEW_TOP_N}]

\* The pools given to generate_review_items: at most MaxQueueRevenues
\* unmatched revenues, numbered after the expenses, and at most
\* MaxQueueExpenses unmatched expenses.
QueueRevenueTxns == {txn(200, "Acme Corp Fee"), txn(200, "Rent")}

QueueRevenues ==
  {[i \in 1..Len(rows) |->
      [original_index |-> MaxQueueExpenses + i - 1, amount |-> rows[i].amount,
       description |-> rows[i].description]] :
     rows \in UNION {Tuples(QueueRevenueTxns, k) : k \in 0..MaxQueueRevenues}}

QueueInputs ==
  [method : {"generate_review_items"}, unmatched_revenues : QueueRevenues,
   unmatched_expenses : pools_upto(MaxQueueExpenses)]

ReviewInputs == RankingInputs \cup QueueInputs

InitReview ==
  /\ table = <<>>
  /\ solver_input = <<>>
  /\ call_input \in ReviewInputs
  /\ InitSession

\* One call of EntityMatcher.find_potential_matches.
FindPotentialMatches ==
  /\ call_input # <<>>
  /\ call_input.method = "find_potential_matches"
  /\ call_result = <<>>
  /\ call_result' = << find_potential_matches(call_input.revenue,
                          call_input.expenses, call_input.top_n) >>
  /\ UNCHANGED <<table, session, response, cascade, rerun, solver, call_input, workers>>

\* generate_review_items taking the best candidate of each revenue out of
\* the expense pool it was given.
GenerateReviewItems_consuming ==
  /\ call_input # <<>>
  /\ call_input.method = "generate_review_items"
  /\ call_result = <<>>
  /\ \E items \in {generate_review_items(call_input.unmatched_revenues,
                                          call_input.unmatched_expenses)} :
       /\ call_result' = << items >>
       /\ call_input' =
            [call_input EXCEPT !.unmatched_expenses =
               drop_ids(@, {items[k].potential_expenses[1].expense.original_index :
                              k \in {j \in DOMAIN items :
                                       items[j].potential_expenses # <<>>}})]
  /\ UNCHANGED <<table, session, response, cascade, rerun, solver, workers>>

\* One call of EntityMatcher.generate_review_items: the pools it is given are
\* read (iterrows, to_dict) and left as they are.
GenerateReviewItems ==
  /\ call_input # <<>>
  /\ call_input.method = "generate_review_items"
  /\ call_result = <<>>
  /\ call_result' = << generate_review_items(call_input.unmatched_revenues,
                                             call_input.unmatched_expenses) >>
  /\ UNCHANGED <<table, session, response, cascade, rerun, solver, call_input, workers>>

NextReview ==
  \/ FindPotentialMatches
  \/ GenerateReviewItems

SpecReview == InitReview /\ [][NextReview]_vars

\* ================================================================ claims
residual(g) ==
  g.revenue.amount + SumSeq([i \in 1..Len(g.expenses) |-> g.expenses[i].amount])

member_ids(g) == {g.revenue.original_index} \cup index_set(g.expenses)

\* C1: every group of the committed match list has one revenue, at least one
\* expense, and a residual revenue.amount + sum of expense amounts whose
\* absolute value is strictly below the balance tolerance.
C1_CommittedGroupsBalanced ==
  \A k \in 1..Len(matches) :
    LET g == matches[k]
    IN  /\ g.revenue # <<>>
        /\ transaction_type(g.revenue) = "revenue"
        /\ Len(g.expenses) >= 1
        /\ \A i \in 1..Len(g.expenses) : transaction_type(g.expenses[i]) = "expense"
        /\ Abs(residual(g)) < BALANCE_TOLERANCE

\* A committed list holding a group of the cascade and a manual group whose
\* residual is not zero.
C1_Witness ==
  /\ \E k \in 1..Len(matches) : matches[k].match_type = "exact"
  /\ \E k \in 1..Len(matches) :
       matches[k].match_type = "manual" /\ residual(matches[k]) # 0

occurrences(pool, i) ==
  Cardinality({k \in 1..Len(pool) : pool[k].original_index = i})

\* C2: once auto-match has stored its results, every row of the processed
\* table is either a member of exactly one committed group (once) or present
\* (once, as the row it is) in the stored unmatched pool of its type, never both.
C2_Partition ==
  has_results =>
    \A i \in Ids :
      LET row == rows_of(table)[i + 1]
          groups == {k \in 1..Len(matches) : i \in member_ids(matches[k])}
          in_expenses == occurrences(unmatched_expenses, i)
          in_revenues == occurrences(unmatched_revenues, i)
      IN  \/ /\ Cardinality(groups) = 1
             /\ in_expenses + in_revenues = 0
             /\ \A k \in groups :
                  IF transaction_type(row) = "revenue"
                  THEN matches[k].revenue = row
                       /\ occurrences(matches[k].expenses, i) = 0
                  ELSE matches[k].revenue.original_index # i
                       /\ occurrences(matches[k].expenses, i) = 1
                       /\ row \in Range(matches[k].expenses)
          \/ /\ groups = {}
             /\ in_expenses + in_revenues = 1
             /\ row \in Range(IF transaction_type(row) = "expense"
                              THEN unmatched_expenses ELSE unmatched_revenues)

\* After a successful manual confirmation: a manual group of two expenses
\* and an expense still unmatched.
C2_Witness ==
  /\ has_results
  /\ response.handler = "confirm_match" /\ response.success
  /\ \E k \in 1..Len(matches) :
       matches[k].match_type = "manual" /\ Len(matches[k].expenses) = 2
  /\ unmatched_expenses # <<>>

ValidatorReasons ==
  {"No revenue transaction in match", "No expense transactions in match",
   "Match not balanced. Balance: "}

\* C3: a rejected confirm-manual-match leaves the committed list, both pools,
\* the stamped table and the review queue as they were, and returns the
\* validator's reason (the handler's own "Invalid match data" is accepted for a
\* request that names no revenue or no expenses).
C3_RejectedUnchangedWithReason ==
  [][(has_results /\ response'.handler = "confirm_match" /\ ~response'.success)
       => /\ UNCHANGED session
          /\ response'.message.text \in ValidatorReasons \cup {"Invalid match data"}]_vars

\* The precondition of C4 for a request.
C4_Selectable(req) ==
  /\ has_results
  /\ req.has_revenue_index
  /\ req.revenue_index \in index_set(unmatched_revenues)
  /\ req.expense_indices # {}
  /\ req.expense_indices \subseteq index_set(unmatched_expenses)
  /\ Abs(residual(candidate_match(req.revenue_index, req.expense_indices)))
       < BALANCE_TOLERANCE

\* C4: confirm-manual-match of an unmatched revenue with a non-empty set of
\* unmatched expenses that balance it succeeds: one manual group of confidence
\* 1.0 is appended, exactly that revenue and those expenses leave the pools,
\* and the review queue is regenerated from the new pools.
C4_BalancedSelectionConfirmed ==
  [][\A req \in Requests :
       (C4_Selectable(req) /\ ConfirmMatch(req))
         => /\ response'.success
            /\ Len(matches') = Len(matches) + 1
            /\ SubSeq(matches', 1, Len(matches)) = matches
            /\ matches'[Len(matches')].match_type = "manual"
            /\ matches'[Len(matches')].confidence = SCALE
            /\ member_ids(matches'[Len(matches')])
                 = {req.revenue_index} \cup req.expense_indices
            /\ unmatched_expenses' = drop_ids(unmatched_expenses, req.expense_indices)
            /\ unmatched_revenues' = drop_ids(unmatched_revenues, {req.revenue_index})
            /\ review_items'
                 = generate_review_items(unmatched_revenues', unmatched_expenses')]_vars

\* ------------------------------------------------------ cascade claims
grouped_expense_ids(ms) == UNION {index_set(ms[k].expenses) : k \in 1..Len(ms)}
grouped_revenue_ids(ms) == {ms[k].revenue.original_index : k \in 1..Len(ms)}
keep_out(pool, ids) == SelectSeq(pool, LAMBDA t : t.original_index \notin ids)

shared_keywords(revenue, expense) ==
  extract_keywords(revenue.description) \cap extract_keywords(expense.description)

\* |shared| / max(|revenue keywords|, |expense keywords|)
overlap(revenue, expense) ==
  (Cardinality(shared_keywords(revenue, expense)) * SCALE)
    \div Max(Cardinality(extract_keywords(revenue.description)),
             Cardinality(extract_keywords(expense.description)))

\* token_sort_ratio / 100 of the two descriptions.
similarity(revenue, expense) ==
  (token_sort_ratio(revenue.description, expense.description) * SCALE) \div 100

all_stage_matches == cascade[1].out.matches \o cascade[2].out.matches
                       \o cascade[3].out.matches

\* C5: auto_match_all runs Exact, Keyword, Fuzzy in that order, each stage on
\* the pools the previous one left; each stage's grouped transactions together
\* with its remaining pools are its input pools; no expense and no revenue is
\* in two groups, or in a group and a remaining pool.
C5_CascadePartitions ==
  cascade # <<>> =>
    /\ cascade[1].in_expenses
         = SelectSeq(rows_of(table), LAMBDA t : t.amount < 0)
    /\ cascade[1].in_revenues
         = SelectSeq(rows_of(table), LAMBDA t : t.amount > 0)
    /\ \A s \in 2..3 :
         /\ cascade[s].in_expenses = cascade[s - 1].out.remaining_expenses
         /\ cascade[s].in_revenues = cascade[s - 1].out.remaining_revenues
    /\ \A k \in 1..Len(cascade[1].out.matches) :
         cascade[1].out.matches[k].match_type = "exact"
    /\ \A k \in 1..Len(cascade[2].out.matches) :
         LET g == cascade[2].out.matches[k]
         IN  \A i \in 1..Len(g.expenses) :
               Cardinality(shared_keywords(g.revenue, g.expenses[i])) >= MIN_KEYWORDS
    /\ \A k \in 1..Len(cascade[3].out.matches) :
         LET g == cascade[3].out.matches[k]
         IN  \A i \in 1..Len(g.expenses) :
               similarity(g.revenue, g.expenses[i]) >= FUZZY_MATCH_THRESHOLD
    /\ \A s \in 1..3 :
         LET ms == cascade[s].out.matches
         IN  /\ grouped_expense_ids(ms) \subseteq index_set(cascade[s].in_expenses)
             /\ grouped_revenue_ids(ms) \subseteq index_set(cascade[s].in_revenues)
             /\ cascade[s].out.remaining_expenses
                  = keep_out(cascade[s].in_expenses, grouped_expense_ids(ms))
             /\ cascade[s].out.remaining_revenues
                  = keep_out(cascade[s].in_revenues, grouped_revenue_ids(ms))
    /\ \A k \in 1..Len(all_stage_matches) :
         LET g == all_stage_matches[k]
         IN  /\ \A i, j \in 1..Len(g.expenses) :
                  g.expenses[i].original_index = g.expenses[j].original_index => i = j
             /\ \A l \in 1..Len(all_stage_matches) :
                  l # k =>
                    /\ index_set(g.expenses) \cap index_set(all_stage_matches[l].expenses) = {}
                    /\ g.revenue.original_index
                         # all_stage_matches[l].revenue.original_index
    /\ matches = all_stage_matches
    /\ unmatched_expenses = cascade[3].out.remaining_expenses
    /\ unmatched_revenues = cascade[3].out.remaining_revenues

\* Two different stages each formed a group and an expense is left over.
C5_Witness ==
  /\ cascade # <<>>
  /\ cascade[1].out.matches # <<>>
  /\ cascade[2].out.matches # <<>>
  /\ cascade[3].out.remaining_expenses # <<>>

\* Position of the row with index i in a pool.
position(pool, i) == CHOOSE k \in 1..Len(pool) : pool[k].original_index = i

\* The exact-match condition of the claim.
C6_Pairable(expense, revenue) ==
  /\ Abs(Abs(expense.amount) - Abs(revenue.amount)) < BALANCE_TOLERANCE
  /\ lower_strip(expense.description) = lower_strip(revenue.description)

\* C6: the Exact stage takes revenues in pool order and pairs each with the
\* first expense in pool order, not consumed by an earlier revenue, whose
\* abs_amount is strictly within tolerance and whose lower-cased trimmed
\* description is equal; groups have one expense, kind exact, confidence 1.0;
\* a revenue stays unmatched only if every pairable expense was consumed by an
\* earlier revenue.
C6_ExactGreedyFirstFit ==
  cascade # <<>> =>
    LET E == cascade[1].in_expenses
        R == cascade[1].in_revenues
        ms == cascade[1].out.matches
        \* the expense index consumed by the revenue at pool position q, -1 if none
        taken(q) ==
          IF \E k \in 1..Len(ms) : ms[k].revenue = R[q]
          THEN (ms[CHOOSE k \in 1..Len(ms) : ms[k].revenue = R[q]]).expenses[1].original_index
          ELSE -1
        consumed_before(q) == {taken(p) : p \in 1..(q - 1)}
        fits(q) == {j \in 1..Len(E) :
                      /\ E[j].original_index \notin consumed_before(q)
                      /\ C6_Pairable(E[j], R[q])}
    IN  /\ \A k \in 1..Len(ms) :
             /\ ms[k].match_type = "exact"
             /\ ms[k].confidence = SCALE
             /\ Len(ms[k].expenses) = 1
             /\ ms[k].revenue \in Range(R)
             /\ ms[k].expenses[1] \in Range(E)
        /\ \A k, l \in 1..Len(ms) :
             k < l => position(R, ms[k].revenue.original_index)
                        < position(R, ms[l].revenue.original_index)
        /\ \A q \in 1..Len(R) :
             IF fits(q) = {} THEN taken(q) = -1
             ELSE taken(q) = E[CHOOSE j \in fits(q) : \A j2 \in fits(q) : j <= j2].original_index

\* Two exact groups, the second revenue's first pairable expense having been
\* consumed by the first, and a third pairable revenue or expense left over.
C6_Witness ==
  /\ cascade # <<>>
  /\ Len(cascade[1].out.matches) = 2
  /\ LET E == cascade[1].in_expenses
         g == cascade[1].out.matches[2]
     IN  \E j \in 1..Len(E) :
           /\ j < position(E, g.expenses[1].original_index)
           /\ C6_Pairable(E[j], g.revenue)
  /\ \E j \in 1..Len(cascade[1].out.remaining_expenses) :
       \E k \in 1..2 :
         lower_strip(cascade[1].out.remaining_expenses[j].description)
           = lower_strip(cascade[1].out.matches[k].revenue.description)

\* C7: the Exact stage run again on the pools its first run returned forms no
\* group and returns those pools unchanged.
C7_ExactIdempotent ==
  rerun # <<>> =>
    /\ rerun[1].matches = <<>>
    /\ rerun[1].remaining_expenses = cascade[1].out.remaining_expenses
    /\ rerun[1].remaining_revenues = cascade[1].out.remaining_revenues

\* A second run on non-empty leftover pools that hold a revenue and an
\* expense with equal descriptions, after a first run that formed a group.
C7_Witness ==
  /\ rerun # <<>>
  /\ cascade[1].out.matches # <<>>
  /\ \E i \in 1..Len(cascade[1].out.remaining_revenues) :
       \E j \in 1..Len(cascade[1].out.remaining_expenses) :
         lower_strip(cascade[1].out.remaining_revenues[i].description)
           = lower_strip(cascade[1].out.remaining_expenses[j].description)

\* The kinds the Fuzzy stage gives its groups.
FuzzyKinds == {"fuzzy_single"} \cup {multi_name(n) : n \in 2..5}

mean_of(revenue, expenses, Score(_, _)) ==
  SumSeq([i \in 1..Len(expenses) |-> Score(revenue, expenses[i])]) \div Len(expenses)

\* C8: every group of the Keyword stage has a keyword kind, which no group of
\* the Fuzzy stage has, and its confidence is the mean keyword-overlap score of
\* its expenses.
C8_KeywordKind ==
  cascade # <<>> =>
    \A k \in 1..Len(cascade[2].out.matches) :
      LET g == cascade[2].out.matches[k]
      IN  /\ g.match_type \notin FuzzyKinds
          /\ g.confidence = mean_of(g.revenue, g.expenses, overlap)

\* C9: every group of the Fuzzy stage holds only expenses whose similarity to
\* the revenue is at least the fuzzy threshold (0.80); its kind is fuzzy_single
\* for one expense and fuzzy_multiple_n for n expenses; its confidence is the
\* mean similarity of its expenses.
C9_FuzzyGroups ==
  cascade # <<>> =>
    \A k \in 1..Len(cascade[3].out.matches) :
      LET g == cascade[3].out.matches[k]
          n == Len(g.expenses)
      IN  /\ n >= 1
          /\ \A i \in 1..n :
               similarity(g.revenue, g.expenses[i]) >= FUZZY_MATCH_THRESHOLD
          /\ g.match_type = IF n = 1 THEN "fuzzy_single" ELSE multi_name(n)
          /\ g.confidence = mean_of(g.revenue, g.expenses, similarity)

\* The Fuzzy stage formed a group of two expenses of different similarity.
C9_Witness ==
  /\ cascade # <<>>
  /\ \E k \in 1..Len(cascade[3].out.matches) :
       LET g == cascade[3].out.matches[k]
       IN  /\ Len(g.expenses) = 2
           /\ similarity(g.revenue, g.expenses[1]) # similarity(g.revenue, g.expenses[2])

\* ------------------------------------------------------- solver claim
RECURSIVE total_abs(_, _)
\* The total absolute amount of the candidates at the positions in S.
total_abs(cands, S) ==
  IF S = {} THEN 0
  ELSE LET i == CHOOSE x \in S : TRUE
       IN  Abs(cands[i].expense.amount) + total_abs(cands, S \ {i})

\* The positions of the 10 highest-ranked candidates: those with fewer than
\* 10 candidates ranked before them (a higher score, or an equal score and
\* an earlier place in the list).
highest_ranked(cands) ==
  {i \in 1..Len(cands) :
     Cardinality({j \in 1..Len(cands) :
        \/ cands[j].keyword_score > cands[i].keyword_score
        \/ cands[j].keyword_score = cands[i].keyword_score /\ j < i}) < 10}

\* The subsets the claim speaks of: a single candidate, or 2 to 5 of the 10
\* highest-ranked candidates.
searched_subsets(cands) ==
  {{i} : i \in 1..Len(cands)} \cup
  {S \in SUBSET highest_ranked(cands) : Cardinality(S) \in 2..5}

within_tolerance(total, target) == Abs(total - target) < BALANCE_TOLERANCE

\* C10: if a single candidate, or 2 to 5 of the 10 highest-ranked candidates,
\* total within tolerance of the target, _find_best_expense_combination
\* returns a subset of the candidates whose total is within tolerance; if
\* there is no such subset it returns None; it never returns a subset whose
\* total is outside tolerance.
C10_RankedSearchCompleteSound ==
  solver_result # <<>> =>
    LET cands == solver_input.potential_expenses
        target == Abs(solver_input.revenue.amount)
        out == solver_result[1]
        solvable == \E S \in searched_subsets(cands) :
                      within_tolerance(total_abs(cands, S), target)
    IN  /\ solvable => out # <<>>
        /\ ~solvable => out = <<>>
        /\ out # <<>> =>
             \E S \in SUBSET (1..Len(cands)) :
               /\ Cardinality(S) = Len(out[1].expenses)
               /\ {cands[i].expense : i \in S} = Range(out[1].expenses)
               /\ within_tolerance(total_abs(cands, S), target)

\* The solver returned five of more than ten candidates.
C10_Witness ==
  /\ solver_result # <<>>
  /\ solver_result[1] # <<>>
  /\ Len(solver_result[1][1].expenses) = 5
  /\ Len(solver_input.potential_expenses) > 10

\* ------------------------------------------------- calculator claims
RECURSIVE cents_total(_, _)
\* The total in integer cents of the absolute amounts at the positions in S.
cents_total(expenses, S) ==
  IF S = {} THEN 0
  ELSE LET i == CHOOSE x \in S : TRUE
       IN  to_cents(Abs(expenses[i].amount)) + cents_total(expenses, S \ {i})

\* The non-empty sets of positions whose cents total is the target in cents.
exact_subsets(target_amount, expenses) ==
  {S \in SUBSET (1..Len(expenses)) :
     S # {} /\ cents_total(expenses, S) = to_cents(target_amount)}

\* C11: for a positive target, find_expense_combinations_dp returns a subset
\* of the candidates whose absolute amounts in cents sum to the target in
\* cents whenever there is one, and None exactly when there is none.
C11_DPExactSubset ==
  (call_result # <<>> /\ call_input.method = "find_expense_combinations_dp"
     /\ call_input.target_amount > 0) =>
    LET expenses == call_input.expenses
        out == call_result[1]
        subsets == exact_subsets(call_input.target_amount, expenses)
    IN  /\ (out = <<>>) <=> (subsets = {})
        /\ out # <<>> =>
             \E S \in subsets :
               /\ Cardinality(S) = Len(out[1])
               /\ {expenses[i] : i \in S} = Range(out[1])

\* The call of `method` has returned.
returned(method) ==
  call_result # <<>> /\ call_input # <<>> /\ call_input.method = method

RECURSIVE signed_total(_, _)
\* The sum of the signed amounts at the positions in S.
signed_total(rows, S) ==
  IF S = {} THEN 0
  ELSE LET i == CHOOSE x \in S : TRUE
       IN  rows[i].amount + signed_total(rows, S \ {i})

\* revenue.amount + the sum of the expenses' signed amounts.
signed_residual(g) == g.revenue.amount + signed_total(g.expenses, DOMAIN g.expenses)

\* C12: validate_match reports the first failure in a fixed order: no revenue
\* (whatever the expenses), then an empty expense list, then an unbalanced
\* residual, reported with the residual to two decimals; otherwise it succeeds.
C12_ValidateOrder ==
  returned("validate_match") =>
    LET g == call_input.match
        out == call_result[1]
    IN  IF g.revenue = <<>>
        THEN ~out.is_valid /\ out.message.text = "No revenue transaction in match"
        ELSE IF g.expenses = <<>>
        THEN ~out.is_valid /\ out.message.text = "No expense transactions in match"
        ELSE IF Abs(signed_residual(g)) >= BALANCE_TOLERANCE
        THEN /\ ~out.is_valid
             /\ out.message.text = "Match not balanced. Balance: "
             /\ Abs(10 * out.message.balance - signed_residual(g)) < 5
        ELSE out.is_valid /\ out.message.text = "Match is valid"

\* validate_match has answered for a group with neither revenue nor expenses.
C12_Witness ==
  /\ returned("validate_match")
  /\ call_input.match.revenue = <<>>
  /\ call_input.match.expenses = <<>>
  /\ ~call_result[1].is_valid

\* C13: the residual of a group is revenue.amount plus the sum of the signed
\* expense amounts, and is_balanced holds exactly when its absolute value is
\* strictly below the tolerance.
C13_BalancedStrict ==
  (returned("is_balanced") /\ call_input.match.revenue # <<>>) =>
    /\ call_result[1].balance = signed_residual(call_input.match)
    /\ call_result[1].is_balanced
         <=> Abs(signed_residual(call_input.match)) < BALANCE_TOLERANCE

\* is_balanced has answered for a residual equal to the tolerance reached
\* through an expense entry of positive sign.
C13_Witness ==
  /\ returned("is_balanced")
  /\ call_input.match.revenue # <<>>
  /\ Abs(signed_residual(call_input.match)) = BALANCE_TOLERANCE
  /\ \E i \in DOMAIN call_input.match.expenses : call_input.match.expenses[i].amount > 0
  /\ ~call_result[1].is_balanced

\* A group with a revenue, at least one expense and a residual within tolerance.
passes(g) ==
  /\ g.revenue # <<>>
  /\ g.expenses # <<>>
  /\ Abs(signed_residual(g)) < BALANCE_TOLERANCE

\* The k-th smallest member of a set of positions.
kth(S, k) == CHOOSE i \in S : Cardinality({j \in S : j <= i}) = k

\* C14: validate_all_matches returns the groups that pass validate_match, in
\* input order, as its valid list, and the others, in input order and each
\* with its validation reason, as its invalid list; every input group is in
\* exactly one of the two lists, once.
C14_ValidInvalidPartition ==
  returned("validate_all_matches") =>
    LET input == call_input.matches
        out == call_result[1]
        good == {i \in DOMAIN input : passes(input[i])}
        bad == DOMAIN input \ good
    IN  /\ Len(out.valid_matches) = Cardinality(good)
        /\ Len(out.invalid_matches) = Cardinality(bad)
        /\ \A k \in DOMAIN out.valid_matches :
             out.valid_matches[k] = input[kth(good, k)]
        /\ \A k \in DOMAIN out.invalid_matches :
             /\ out.invalid_matches[k].match = input[kth(bad, k)]
             /\ out.invalid_matches[k].validation_error.text
                  = IF input[kth(bad, k)].revenue = <<>>
                    THEN "No revenue transaction in match"
                    ELSE IF input[kth(bad, k)].expenses = <<>>
                    THEN "No expense transactions in match"
                    ELSE "Match not balanced. Balance: "

\* validate_all_matches has answered for a list with a valid group between
\* two invalid groups of different reasons.
C14_Witness ==
  /\ returned("validate_all_matches")
  /\ Len(call_result[1].valid_matches) = 1
  /\ Len(call_result[1].invalid_matches) = 2
  /\ ~passes(call_input.matches[1])
  /\ passes(call_input.matches[2])
  /\ call_result[1].invalid_matches[1].validation_error.text
       # call_result[1].invalid_matches[2].validation_error.text

\* The residual of a group, a missing revenue counting as 0.
group_residual(g) ==
  (IF g.revenue = <<>> THEN 0 ELSE g.revenue.amount)
    + signed_total(g.expenses, DOMAIN g.expenses)

RECURSIVE abs_total(_, _)
\* The sum of the absolute amounts at the positions in S.
abs_total(rows, S) ==
  IF S = {} THEN 0
  ELSE LET i == CHOOSE x \in S : TRUE
       IN  Abs(rows[i].amount) + abs_total(rows, S \ {i})

RECURSIVE sum_over(_, _)
\* The sum of f over the positions in S.
sum_over(f, S) ==
  IF S = {} THEN 0
  ELSE LET i == CHOOSE x \in S : TRUE
       IN  f[i] + sum_over(f, S \ {i})

\* C15: calculate_total_balance returns, for any list (all zero and no
\* discrepancy for the empty list): total_matches = balanced_matches +
\* unbalanced_matches = the number of groups; one discrepancy per unbalanced
\* group, in order, carrying its residual; the sums of the absolute revenue
\* and expense amounts; and net_balance = total_revenue - total_expenses.
C15_TotalBalance ==
  returned("calculate_total_balance") =>
    LET input == call_input.matches
        out == call_result[1]
        off == {i \in DOMAIN input : Abs(group_residual(input[i])) >= BALANCE_TOLERANCE}
    IN  /\ out.total_matches = Len(input)
        /\ out.total_matches = out.balanced_matches + out.unbalanced_matches
        /\ out.unbalanced_matches = Cardinality(off)
        /\ Len(out.balance_discrepancies) = Cardinality(off)
        /\ \A k \in DOMAIN out.balance_discrepancies :
             /\ out.balance_discrepancies[k].match = input[kth(off, k)]
             /\ out.balance_discrepancies[k].balance = group_residual(input[kth(off, k)])
        /\ out.total_revenue
             = sum_over([i \in DOMAIN input |->
                           IF input[i].revenue = <<>> THEN 0
                           ELSE Abs(input[i].revenue.amount)], DOMAIN input)
        /\ out.total_expenses
             = sum_over([i \in DOMAIN input |->
                           abs_total(input[i].expenses, DOMAIN input[i].expenses)],
                        DOMAIN input)
        /\ out.net_balance = out.total_revenue - out.total_expenses
        /\ input = <<>> =>
             /\ out.total_matches = 0 /\ out.balanced_matches = 0
             /\ out.unbalanced_matches = 0 /\ out.total_revenue = 0
             /\ out.total_expenses = 0 /\ out.net_balance = 0
             /\ out.balance_discrepancies = <<>>

\* calculate_total_balance has answered for a list with a balanced group and
\* two unbalanced groups.
C15_Witness ==
  /\ returned("calculate_total_balance")
  /\ call_result[1].balanced_matches >= 1
  /\ call_result[1].unbalanced_matches = 2
  /\ call_result[1].net_balance # 0

\* ----------------------------------------------------- review claims
\* max(0, 1 - |expense abs_amount - revenue abs_amount| / revenue abs_amount),
\* and 0 for a revenue of abs_amount 0.
amount_closeness(revenue, expense) ==
  IF Abs(revenue.amount) = 0 THEN 0
  ELSE Max(0, SCALE - (Abs(Abs(expense.amount) - Abs(revenue.amount)) * SCALE)
                        \div Abs(revenue.amount))

\* 0.4 * fuzzy + 0.4 * keyword overlap + 0.2 * amount closeness.
composite(revenue, expense) ==
  (4 * similarity(revenue, expense)
     + 4 * (IF extract_keywords(revenue.description) = {}
               \/ extract_keywords(expense.description) = {}
            THEN 0 ELSE overlap(revenue, expense))
     + 2 * amount_closeness(revenue, expense)) \div 10

\* The place of pool position p in the ranking: one more than the number of
\* positions with a higher score, or an equal score and an earlier position.
ranking_place(revenue, pool, p) ==
  1 + Cardinality({q \in DOMAIN pool :
        \/ composite(revenue, pool[q]) > composite(revenue, pool[p])
        \/ composite(revenue, pool[q]) = composite(revenue, pool[p]) /\ q < p})

\* C16: find_potential_matches scores every expense of the pool with
\* 0.4 * fuzzy + 0.4 * keyword overlap + 0.2 * amount closeness (closeness 0
\* for a revenue of amount 0) and returns the min(top_n, pool size) best in
\* non-increasing score order, equal scores in pool order; every score is in
\* [0, 1].
C16_PotentialMatchesRanked ==
  returned("find_potential_matches") =>
    LET revenue == call_input.revenue
        pool == call_input.expenses
        out == call_result[1]
    IN  /\ Len(out) = Min(call_input.top_n, Len(pool))
        /\ \A k \in DOMAIN out :
             \E p \in DOMAIN pool :
               /\ ranking_place(revenue, pool, p) = k
               /\ out[k].expense = pool[p]
               /\ out[k].combined_score = composite(revenue, pool[p])
               /\ out[k].amount_score = amount_closeness(revenue, pool[p])
               /\ out[k].combined_score >= 0 /\ out[k].combined_score <= SCALE
               /\ out[k].fuzzy_score >= 0 /\ out[k].fuzzy_score <= SCALE
               /\ out[k].keyword_score >= 0 /\ out[k].keyword_score <= SCALE
               /\ out[k].amount_score >= 0 /\ out[k].amount_score <= SCALE

\* find_potential_matches has cut a pool of more than top_n expenses, two of
\* the returned candidates having the same score and two different scores.
C16_Witness ==
  /\ returned("find_potential_matches")
  /\ Len(call_input.expenses) > call_input.top_n
  /\ Len(call_result[1]) = REVIEW_TOP_N
  /\ \E k \in 1..(Len(call_result[1]) - 1) :
       call_result[1][k].combined_score = call_result[1][k + 1].combined_score
  /\ \E k \in 1..(Len(call_result[1]) - 1) :
       call_result[1][k].combined_score > call_result[1][k + 1].combined_score
  /\ call_input.expenses[1].amount = -500

\* C17: computing the review queue leaves the unmatched-expense pool and the
\* unmatched-revenue pool it is computed from, the committed match list and
\* the transaction statuses unchanged.
C17_ReviewQueueFrame ==
  [][(call_input # <<>> /\ call_input.method = "generate_review_items"
        /\ call_result' # call_result)
       => /\ call_input'.unmatched_expenses = call_input.unmatched_expenses
          /\ call_input'.unmatched_revenues = call_input.unmatched_revenues
          /\ UNCHANGED <<matches, updated_df, unmatched_expenses,
                         unmatched_revenues>>]_vars

\* A queue of two items, each with candidates, has been computed.
C17_Witness ==
  /\ returned("generate_review_items")
  /\ Len(call_result[1]) = 2
  /\ \A k \in 1..2 : Len(call_result[1][k].potential_expenses) >= 2
  /\ call_input.unmatched_expenses # <<>>

\* ---------------------------------------------------- session claims
\* C18: every group of the committed match list, formed by a stage of the
\* cascade or by manual confirmation, has a confidence in [0, 1].
C18_ConfidenceInUnitInterval ==
  \A k \in DOMAIN matches :
    matches[k].confidence >= 0 /\ matches[k].confidence <= SCALE

\* A committed group of two expenses whose confidence is strictly between 0
\* and 1.
C18_Witness ==
  \E k \in DOMAIN matches :
    /\ Len(matches[k].expenses) = 2
    /\ matches[k].confidence > 0
    /\ matches[k].confidence < SCALE

committed_ids == UNION {member_ids(matches[k]) : k \in DOMAIN matches}

\* C20: once results are stored, the review queue has exactly one item per
\* revenue of the stored unmatched-revenue pool, in pool order, whether or
\* not any expense is close to it; every candidate of every item is a row of
\* the stored unmatched-expense pool; no item or candidate is a transaction
\* of a committed group.
C20_ReviewQueueMatchesPools ==
  has_results =>
    /\ Len(review_items) = Len(unmatched_revenues)
    /\ \A k \in DOMAIN review_items :
         /\ review_items[k].revenue = unmatched_revenues[k]
         /\ review_items[k].revenue.original_index \notin committed_ids
         /\ Len(review_items[k].potential_expenses)
              = Min(REVIEW_TOP_N, Len(unmatched_expenses))
         /\ \A c \in DOMAIN review_items[k].potential_expenses :
              /\ review_items[k].potential_expenses[c].expense
                   \in Range(unmatched_expenses)
              /\ review_items[k].potential_expenses[c].expense.original_index
                   \notin committed_ids

\* After a successful manual confirmation the queue holds an item with a
\* candidate for a revenue still unmatched.
C20_Witness ==
  /\ has_results
  /\ response.handler = "confirm_match"
  /\ response.success
  /\ matches # <<>>
  /\ review_items # <<>>
  /\ review_items[1].potential_expenses # <<>>

\* C21: a row of the stamped table has status matched iff it is a member of a
\* committed group, and then carries that group's id and confidence; every
\* other row has status unmatched, no group id and no confidence.
C21_StampsFollowGroups ==
  \A i \in Ids :
    IF i \in committed_ids
    THEN \E k \in DOMAIN matches :
           /\ i \in member_ids(matches[k])
           /\ updated_df[i].match_status = "matched"
           /\ updated_df[i].match_group_id = <<"MG_", 0, 0, 0, k - 1>>
           /\ updated_df[i].match_confidence = <<matches[k].confidence>>
    ELSE /\ updated_df[i].match_status = "unmatched"
         /\ updated_df[i].match_group_id = <<>>
         /\ updated_df[i].match_confidence = <<>>

\* A group of the cascade and a manual group after it are committed and
\* their rows carry two different group ids.
C21_Witness ==
  /\ Len(matches) = 2
  /\ matches[2].match_type = "manual"
  /\ updated_df[matches[1].revenue.original_index].match_group_id
       # updated_df[matches[2].revenue.original_index].match_group_id

\* ------------------------------------------------ ranked search order
\* The place of candidate i in the ranking: one more than the number of
\* candidates with a higher score, or an equal score and an earlier place in
\* the list.
solver_rank(cands, i) ==
  1 + Cardinality({j \in DOMAIN cands :
        \/ cands[j].keyword_score > cands[i].keyword_score
        \/ cands[j].keyword_score = cands[i].keyword_score /\ j < i})

\* The set of ranks of the candidates at the positions in S.
ranks_of(cands, S) == {solver_rank(cands, i) : i \in S}

\* Generation order of combinations: fewer members first, and among equally
\* many the one holding the least rank in which the two differ.
generated_before(A, B) ==
  \/ Cardinality(A) < Cardinality(B)
  \/ /\ Cardinality(A) = Cardinality(B)
     /\ A # B
     /\ (CHOOSE r \in (A \ B) \cup (B \ A) :
           \A r2 \in (A \ B) \cup (B \ A) : r <= r2) \in A

\* What the ranked search returns: the best-ranked single candidate within
\* tolerance if there is one; otherwise the first combination in generation
\* order, of 2 to 5 of the 10 highest-ranked candidates, within tolerance,
\* its expenses in ranked order; otherwise nothing.
ranked_search_order ==
  LET cands == solver_input.potential_expenses
      target == Abs(solver_input.revenue.amount)
      out == solver_result[1]
      singles == {i \in DOMAIN cands :
                    within_tolerance(Abs(cands[i].expense.amount), target)}
      combos == {S \in SUBSET highest_ranked(cands) :
                   /\ Cardinality(S) \in 2..5
                   /\ within_tolerance(total_abs(cands, S), target)}
  IN  IF singles # {}
      THEN /\ out # <<>>
           /\ Len(out[1].expenses) = 1
           /\ \E i \in singles :
                /\ out[1].expenses[1] = cands[i].expense
                /\ \A j \in singles : solver_rank(cands, i) <= solver_rank(cands, j)
           /\ solver_checks = 0
      ELSE IF combos # {}
      THEN /\ out # <<>>
           /\ \E S \in combos :
                /\ \A T \in combos \ {S} :
                     generated_before(ranks_of(cands, S), ranks_of(cands, T))
                /\ Len(out[1].expenses) = Cardinality(S)
                /\ \A k \in DOMAIN out[1].expenses :
                     \E i \in S :
                       /\ out[1].expenses[k] = cands[i].expense
                       /\ Cardinality({j \in S : solver_rank(cands, j)
                                                   <= solver_rank(cands, i)}) = k
      ELSE out = <<>>

\* The original statement of C22: the ranked search order, with at most 252
\* combinations tested per call.
C22_RankedOrder252 ==
  solver_result # <<>> => (ranked_search_order /\ solver_checks <= 252)

\* C22 as amended: candidates are taken in descending score order, equal
\* scores in input order; every single candidate is checked before any
\* combination; combinations are drawn from the 10 highest-ranked candidates
\* in increasing size from 2 to 5 and the first within tolerance in
\* generation order is returned; at most 45 + 120 + 210 + 252 = 627
\* combinations are tested per call.
C22_RankedOrder627 ==
  solver_result # <<>> => (ranked_search_order /\ solver_checks <= 627)

\* A combination of a well-ranked and a middle-ranked candidate has been
\* returned from a list given in reverse ranked order, after more than one
\* combination was tested.
C22_Witness ==
  /\ solver_result # <<>>
  /\ solver_result[1] # <<>>
  /\ Len(solver_result[1][1].expenses) = 2
  /\ solver_result[1][1].expenses[1].amount # solver_result[1][1].expenses[2].amount
  /\ solver_result[1][1].expenses[1].original_index
       > solver_result[1][1].expenses[2].original_index
  /\ solver_checks > 1

\* ------------------------------------------------ DP backtracking rule
\* Some set of the first i candidates (the empty set included) has a cents
\* total of j.
reachable(expenses, i, j) ==
  \E S \in SUBSET (1..i) : cents_total(expenses, S) = j

\* The positions the skip-biased rule selects among the first i candidates
\* for a remaining target of j cents: candidate i is left out whenever j is
\* reachable from the candidates before it, and taken otherwise.
RECURSIVE skip_biased(_, _, _)
skip_biased(expenses, i, j) ==
  IF i = 0 \/ j <= 0 THEN {}
  ELSE IF reachable(expenses, i - 1, j)
       THEN skip_biased(expenses, i - 1, j)
       ELSE {i} \cup skip_biased(expenses, i - 1,
                                 j - to_cents(Abs(expenses[i].amount)))

\* C23: the list find_expense_combinations_dp returns is the one the
\* skip-biased rule determines, walking from the last candidate to the first:
\* a candidate is excluded whenever the remaining target is reachable from
\* the candidates before it and included otherwise, and the result lists the
\* included candidates from last to first.  (That this subset need not be a
\* smallest one is shown by the witness.)
C23_SkipBiased ==
  (returned("find_expense_combinations_dp") /\ call_result[1] # <<>>) =>
    LET expenses == call_input.expenses
        out == call_result[1][1]
        S == skip_biased(expenses, Len(expenses), to_cents(call_input.target_amount))
    IN  /\ Len(out) = Cardinality(S)
        /\ \A k \in DOMAIN out :
             \E i \in S :
               /\ out[k] = expenses[i]
               /\ Cardinality({i2 \in S : i2 >= i}) = k

\* A call has returned two candidates although a single later candidate
\* makes the target alone.
C23_Witness ==
  /\ returned("find_expense_combinations_dp")
  /\ call_result[1] # <<>>
  /\ Len(call_result[1][1]) = 2
  /\ \E S \in exact_subsets(call_input.target_amount, call_input.expenses) :
       /\ Cardinality(S) = 1
       /\ \A i \in S : call_input.expenses[i] \notin Range(call_result[1][1])

\* ------------------------------------------------ keyword candidates
MaxKeywordRevenues == 2
MaxKeywordExpenses == 3

\* The revenues and expenses keyword_match is called on.
KeywordRevenueTxns ==
  {txn(200, "Acme Corp Fee"), txn(200, "Acme fee"), txn(100, "Rent")}

KeywordExpenseTxns ==
  {txn(-200, "Acme Corp payment A"), txn(-200, "Acme fees"),
   txn(-100, "acme corp fee"), txn(-100, "Acme fee"), txn(-100, "Rent")}

\* The arguments of one call of keyword_match: the two pools, rows of one
\* table, and min_keywords (default 2).
KeywordInputs ==
  {[method |-> "keyword_match",
    revenues |-> SelectSeq(rows_of(r \o e), LAMBDA t : t.amount > 0),
    expenses |-> SelectSeq(rows_of(r \o e), LAMBDA t : t.amount < 0),
    min_keywords |-> m] :
     r \in UNION {Tuples(KeywordRevenueTxns, k) : k \in 0..MaxKeywordRevenues},
     e \in UNION {Tuples(KeywordExpenseTxns, k) : k \in 0..MaxKeywordExpenses},
     m \in {1, MIN_KEYWORDS}}

InitKeyword ==
  /\ table = <<>>
  /\ solver_input = <<>>
  /\ call_input \in KeywordInputs
  /\ InitSession

\* One call of EntityMatcher.keyword_match.
KeywordMatch ==
  /\ call_input # <<>>
  /\ call_input.method = "keyword_match"
  /\ call_result = <<>>
  /\ call_result' = << keyword_match(call_input.expenses, call_input.revenues,
                                     call_input.min_keywords) >>
  /\ UNCHANGED <<table, session, response, cascade, rerun, solver, call_input, workers>>

NextKeyword == KeywordMatch

SpecKeyword == InitKeyword /\ [][NextKeyword]_vars

\* The expense shares at least min_keywords keywords with the revenue.
qualifies(revenue, expense, min_keywords) ==
  Cardinality(shared_keywords(revenue, expense)) >= min_keywords

\* C24: in the Keyword stage a revenue with fewer than min_keywords keywords
\* is never grouped; every expense of a Keyword-stage group was in the
\* stage's input pool, had not been consumed by an earlier group of the
\* stage, and shares at least min_keywords keywords with the revenue; its
\* score |shared| / max(|revenue keywords|, |expense keywords|) lies in
\* (0, 1] and the group's confidence is the mean of these scores; a revenue
\* the stage leaves unmatched has no qualifying expense left in the pool
\* that matches its amount alone.
C24_KeywordCandidates ==
  returned("keyword_match") =>
    LET out == call_result[1]
        ms == out.matches
        min_keywords == call_input.min_keywords
    IN  /\ \A r \in Range(call_input.revenues) :
             Cardinality(extract_keywords(r.description)) < min_keywords
               => r \in Range(out.remaining_revenues)
        /\ \A k \in DOMAIN ms :
             /\ Cardinality(extract_keywords(ms[k].revenue.description))
                  >= min_keywords
             /\ \A e \in Range(ms[k].expenses) :
                  /\ e \in Range(call_input.expenses)
                  /\ \A k2 \in 1..(k - 1) :
                       e.original_index \notin index_set(ms[k2].expenses)
                  /\ qualifies(ms[k].revenue, e, min_keywords)
                  /\ overlap(ms[k].revenue, e) > 0
                  /\ overlap(ms[k].revenue, e) <= SCALE
             /\ ms[k].confidence = mean_of(ms[k].revenue, ms[k].expenses, overlap)
        /\ \A r \in Range(out.remaining_revenues) :
             \A e \in Range(out.remaining_expenses) :
               qualifies(r, e, min_keywords)
                 => ~within_tolerance(Abs(e.amount), Abs(r.amount))

\* A call with the default min_keywords formed a group from an expense whose
\* overlap with the revenue is below 1, and left a one-keyword revenue
\* unmatched although an expense of its amount and description stayed in the
\* pool.
C24_Witness ==
  /\ returned("keyword_match")
  /\ call_input.min_keywords = MIN_KEYWORDS
  /\ \E k \in DOMAIN call_result[1].matches :
       \E e \in Range(call_result[1].matches[k].expenses) :
         overlap(call_result[1].matches[k].revenue, e) < SCALE
  /\ \E r \in Range(call_result[1].remaining_revenues) :
       /\ Cardinality(extract_keywords(r.description)) < MIN_KEYWORDS
       /\ \E e \in Range(call_result[1].remaining_expenses) :
            /\ Cardinality(shared_keywords(r, e)) >= 1
            /\ within_tolerance(Abs(e.amount), Abs(r.amount))

\* ------------------------------------------------ cascade groups are valid
\* C25: every group auto_match_all produces, in any of its three stages,
\* passes validate_match; the invalid list of the run is empty, so the
\* committed list is the cascade's whole output and every row of the table
\* is in a committed group or in a stored unmatched pool.
C25_CascadeGroupsValid ==
  cascade # <<>> =>
    /\ \A k \in DOMAIN all_stage_matches :
         validate_match(all_stage_matches[k]).is_valid
    /\ validate_all_matches(all_stage_matches).invalid_matches = <<>>
    /\ matches = all_stage_matches
    /\ Ids = committed_ids \cup index_set(unmatched_expenses)
                           \cup index_set(unmatched_revenues)

\* A run formed a group with a non-zero residual in the Exact stage and a
\* group of two expenses in a later stage.
C25_Witness ==
  /\ cascade # <<>>
  /\ \E k \in DOMAIN cascade[1].out.matches :
       calculate_match_balance(cascade[1].out.matches[k]) # 0
  /\ \E s \in 2..3 : \E k \in DOMAIN cascade[s].out.matches :
       Len(cascade[s].out.matches[k].expenses) = 2

\* ------------------------------------------------ committed list over time
\* C26: the committed list only grows: every group in it before a
\* run-auto-match or confirm-manual-match is in it afterwards, with the same
\* revenue and the same expenses.
C26_CommittedOnlyGrows ==
  [][\A k \in DOMAIN matches :
       \E k2 \in DOMAIN matches' :
         /\ matches'[k2].revenue = matches[k].revenue
         /\ matches'[k2].expenses = matches[k].expenses]_vars

\* ------------------------------------------------ requested expense ids
\* C27: a successful confirm-manual-match commits a group whose expenses are
\* exactly the requested expense ids; a request naming an expense id that is
\* not in the unmatched-expense pool is rejected and leaves the session
\* unchanged.
C27_ExactlyRequestedIds ==
  [][\A req \in Requests :
       (has_results /\ ConfirmMatch(req))
         => /\ response'.success
              => /\ Len(matches') = Len(matches) + 1
                 /\ index_set(matches'[Len(matches')].expenses) = req.expense_indices
            /\ ~(req.expense_indices \subseteq index_set(unmatched_expenses))
              => (~response'.success /\ UNCHANGED session)]_vars

\* ------------------------------------------------ group ids
\* MG_ followed by i zero-padded to four digits, for i below 10000.
padded_id(i) ==
  <<"MG_", (i \div 1000) % 10, (i \div 100) % 10, (i \div 10) % 10, i % 10>>

\* The id stamped on the revenue row of the group at position k.
stamped_id(k) == updated_df[matches[k].revenue.original_index].match_group_id

\* C28: the group at position i (from 0) of the committed list has id MG_
\* followed by i zero-padded to four digits, stamped on all its members; no
\* two committed groups share an id; and a successful confirm-manual-match
\* leaves the id and confidence stamped on every previously matched
\* transaction unchanged.
C28_GroupIdsUniqueStable ==
  /\ [](\A k \in DOMAIN matches :
          /\ \A i \in member_ids(matches[k]) :
               updated_df[i].match_group_id = padded_id(k - 1)
          /\ \A k2 \in DOMAIN matches : k2 # k => stamped_id(k2) # stamped_id(k))
  /\ [][(response'.handler = "confirm_match" /\ response'.success)
          => \A i \in committed_ids :
               /\ updated_df'[i].match_group_id = updated_df[i].match_group_id
               /\ updated_df'[i].match_confidence = updated_df[i].match_confidence]_vars

\* A successful confirmation has added a second group to a list whose first
\* group came from the cascade.
C28_Witness ==
  /\ Len(matches) = 2
  /\ matches[1].match_type # "manual"
  /\ response.handler = "confirm_match" /\ response.success
  /\ stamped_id(1) # stamped_id(2)

\* ------------------------------------------------ expense suggestions
\* itertools.combinations over positions 1..n for the sizes size..last, one
\* size after the other.
RECURSIVE combinations_by_size(_, _, _)
combinations_by_size(n, size, last) ==
  IF size > last THEN <<>>
  ELSE combinations(1, n, size) \o combinations_by_size(n, size + 1, last)

\* sum(abs(exp.get("amount", 0)) for exp in combo)
combo_sum(expenses, combo) ==
  SumSeq([i \in 1..Len(combo) |-> Abs(expenses[combo[i]].amount)])

\* list(combo): the expense dicts at the positions of a combination.
combo_list(expenses, combo) == [i \in 1..Len(combo) |-> expenses[combo[i]]]

\* BalanceCalculator.find_expense_combinations: every combination of 1 to
\* max_combo_size expenses within tolerance of the target, as position tuples
\* in generation order.
find_expense_combinations(target_amount, expenses, max_combo_size) ==
  SelectSeq(combinations_by_size(Len(expenses), 1,
                                 Min(max_combo_size, Len(expenses))),
            LAMBDA combo : Abs(combo_sum(expenses, combo) - target_amount)
                             < BALANCE_TOLERANCE)

\* close_matches.sort(key=score, reverse=True): stable, descending.
RECURSIVE sort_close_matches(_)
sort_close_matches(s) ==
  IF s = <<>> THEN <<>>
  ELSE LET front == sort_close_matches(SubSeq(s, 1, Len(s) - 1))
           x == s[Len(s)]
           k == Cardinality({i \in 1..Len(front) : front[i].score >= x.score})
       IN  SubSeq(front, 1, k) \o <<x>> \o SubSeq(front, k + 1, Len(front))

\* BalanceCalculator._find_close_combinations: the combinations of 1 to 5 of
\* the first 10 expenses whose total differs from the target by less than a
\* tenth of it, best score first, at most top_n of them.
_find_close_combinations(target_amount, expenses, top_n) ==
  LET max_expenses == Min(10, Len(expenses))
      combos == combinations_by_size(max_expenses, 1, Min(5, max_expenses))
      close == SelectSeq(combos, LAMBDA combo :
                 Abs(combo_sum(expenses, combo) - target_amount) * 10
                   < target_amount)
      close_matches ==
        [i \in 1..Len(close) |->
           LET difference == Abs(combo_sum(expenses, close[i]) - target_amount)
           IN  [expenses |-> combo_list(expenses, close[i]),
                total_amount |-> combo_sum(expenses, close[i]),
                balance |-> target_amount - combo_sum(expenses, close[i]),
                match_type |-> "approximate",
                score |-> Max(0, SCALE - (difference * SCALE) \div target_amount),
                difference |-> difference]]
      sorted == sort_close_matches(close_matches)
  IN  SubSeq(sorted, 1, Min(top_n, Len(sorted)))

\* BalanceCalculator.suggest_expense_combination
suggest_expense_combination(revenue_amount, available_expenses, top_n) ==
  LET exact_combinations ==
        find_expense_combinations(revenue_amount, available_expenses, 5)
      kept == SubSeq(exact_combinations, 1, Min(top_n, Len(exact_combinations)))
      suggestions ==
        [i \in 1..Len(kept) |->
           [expenses |-> combo_list(available_expenses, kept[i]),
            total_amount |-> combo_sum(available_expenses, kept[i]),
            balance |-> revenue_amount - combo_sum(available_expenses, kept[i]),
            match_type |-> "exact",
            score |-> SCALE]]
  IN  IF Len(suggestions) < top_n
      THEN suggestions \o _find_close_combinations(revenue_amount,
                            available_expenses, top_n - Len(suggestions))
      ELSE suggestions

MaxSuggestExpenses == 3

\* The calls of suggest_expense_combination: revenue amounts 0, 0.100 and
\* 0.200, up to MaxSuggestExpenses available expenses, top_n 1 and the
\* default 3.
SuggestAmounts == {-100, -96, -104, -200}

SuggestInputs ==
  [method : {"suggest_expense_combination"},
   revenue_amount : {0, 100, 200},
   available_expenses : dict_lists(SuggestAmounts, MaxSuggestExpenses),
   top_n : {1, 3}]

InitSuggest ==
  /\ table = <<>>
  /\ solver_input = <<>>
  /\ call_input \in SuggestInputs
  /\ InitSession

\* One call of BalanceCalculator.suggest_expense_combination.
SuggestExpenseCombination ==
  /\ call_input # <<>>
  /\ call_input.method = "suggest_expense_combination"
  /\ call_result = <<>>
  /\ call_result' = << suggest_expense_combination(call_input.revenue_amount,
                          call_input.available_expenses, call_input.top_n) >>
  /\ UNCHANGED <<table, session, response, cascade, rerun, solver, call_input, workers>>

NextSuggest == SuggestExpenseCombination

SpecSuggest == InitSuggest /\ [][NextSuggest]_vars

\* C29: suggest_expense_combination returns at most top_n suggestions, the
\* exact ones (score 1.0, total within tolerance) before the approximate
\* ones, the approximate ones in non-increasing score order and each within
\* 10% of the revenue amount, and no expense combination twice.
C29_Suggestions ==
  returned("suggest_expense_combination") =>
    LET out == call_result[1]
        revenue_amount == call_input.revenue_amount
    IN  /\ Len(out) <= call_input.top_n
        /\ \A i, j \in DOMAIN out :
             (i < j /\ out[j].match_type = "exact") => out[i].match_type = "exact"
        /\ \A i \in DOMAIN out :
             IF out[i].match_type = "exact"
             THEN /\ out[i].score = SCALE
                  /\ within_tolerance(out[i].total_amount, revenue_amount)
             ELSE /\ out[i].match_type = "approximate"
                  /\ Abs(out[i].total_amount - revenue_amount) * 10 < revenue_amount
        /\ \A i, j \in DOMAIN out :
             (i < j /\ out[i].match_type = "approximate") => out[i].score >= out[j].score
        /\ \A i, j \in DOMAIN out : i # j => out[i].expenses # out[j].expenses

\* ------------------------------------------------ overlapping confirmations
\* The tables two workers confirm matches on: none of them has a pair the
\* cascade groups, so every group is a manual one.  In the first both
\* revenues and both expenses can be confirmed, in the second the first row
\* is a revenue, the third has one revenue only.
ConcurrentTables ==
  {<<txn(-204, "Rent"), txn(200, "Acme Corp Fee"),
     txn(200, "Acme Corp Fee"), txn(-196, "Rent")>>,
   <<txn(200, "Acme Corp Fee"), txn(-204, "Rent"),
     txn(200, "Acme Corp Fee"), txn(-196, "Rent")>>,
   <<txn(-204, "Rent"), txn(200, "Acme Corp Fee"), txn(-196, "Rent")>>}

InitConcurrent ==
  /\ table \in ConcurrentTables
  /\ solver_input = <<>>
  /\ call_input = <<>>
  /\ InitSession

\* app.py lines 286-294: what confirm_match reads from the session.
session_read(req) ==
  [request |-> req,
   updated_df |-> updated_df,
   matches |-> matches,
   unmatched_expenses |-> unmatched_expenses,
   unmatched_revenues |-> unmatched_revenues]

\* Lines 275-294 of confirm_match for worker w: the request is checked and
\* the session is read.
ReadSession(w, req) ==
  /\ has_results
  /\ in_flight[w] = <<>>
  /\ IF (~req.has_revenue_index \/ req.revenue_index = 0)
          \/ req.expense_indices = {}
     THEN /\ response' = reply("confirm_match", FALSE, 400, "",
                               message_of("Invalid match data"))
          /\ UNCHANGED <<in_flight, overlapped>>
     ELSE /\ in_flight' = [in_flight EXCEPT ![w] = << session_read(req) >>]
          /\ overlapped' = (overlapped \/ \E w2 \in Workers \ {w} : in_flight[w2] # <<>>)
          /\ UNCHANGED response
  /\ UNCHANGED <<table, session, cascade, rerun, solver, calls, acknowledged>>

\* Lines 296-312: the candidate group built from what was read.
read_match(read) ==
  LET found == SelectSeq(read.unmatched_revenues,
                         LAMBDA t : t.original_index = read.request.revenue_index)
      selected_expenses ==
        SelectSeq(read.unmatched_expenses,
                  LAMBDA t : t.original_index \in read.request.expense_indices)
  IN  [match_type |-> "manual",
       confidence |-> SCALE,
       revenue |-> found[1],
       expenses |-> selected_expenses,
       balance |-> found[1].amount
                     + SumSeq([i \in 1..Len(selected_expenses) |->
                                 selected_expenses[i].amount])]

\* The committed list holding the new group alone.
appended_alone(read_matches, new_match) == <<new_match>>

\* Line 329: matches.append(new_match) on the list that was read.
appended(read_matches, new_match) == Append(read_matches, new_match)

\* Lines 296-364 of confirm_match for worker w: the group is built and
\* validated from what the worker read, and the session is written.
WriteSession(w) ==
  /\ in_flight[w] # <<>>
  /\ in_flight' = [in_flight EXCEPT ![w] = <<>>]
  /\ UNCHANGED <<table, cascade, rerun, solver, calls, overlapped>>
  /\ \E read \in {in_flight[w][1]} :
       IF read.request.revenue_index \notin index_set(read.unmatched_revenues)
       THEN /\ response' = reply("confirm_match", FALSE, 500, "",
                                 message_of("single positional indexer is out-of-bounds"))
            /\ UNCHANGED <<session, acknowledged>>
       ELSE \E new_match \in {read_match(read)} :
            \E checked \in {validate_match(new_match)} :
            LET new_matches == appended(read.matches, new_match)
                new_expenses == drop_ids(read.unmatched_expenses,
                                         read.request.expense_indices)
                new_revenues == drop_ids(read.unmatched_revenues,
                                         {read.request.revenue_index})
            IN  IF ~checked.is_valid
                THEN /\ response' = reply("confirm_match", FALSE, 400,
                                          "Invalid match: ", checked.message)
                     /\ UNCHANGED <<session, acknowledged>>
                ELSE /\ matches' = new_matches
                     /\ updated_df' = assign_match_groups(read.updated_df, new_matches)
                     /\ unmatched_expenses' = new_expenses
                     /\ unmatched_revenues' = new_revenues
                     /\ review_items' = generate_review_items(new_revenues, new_expenses)
                     /\ has_results' = has_results
                     /\ acknowledged' = acknowledged \cup {new_match}
                     /\ response' = reply("confirm_match", TRUE, 200, "",
                                          message_of("Match confirmed successfully"))

\* The requests the workers are sent: a missing revenue_index, or a revenue
\* index and one or two expense indices of the table.
ConcurrentRequests ==
  {req \in Requests : Cardinality(req.expense_indices) <= 2}

\* One run of auto_match, then confirm_match requests served by the workers
\* with their reads and writes interleaved in any order.
NextConcurrent ==
  \/ ~has_results /\ AutoMatch
  \/ \E w \in Workers : \E req \in ConcurrentRequests : ReadSession(w, req)
  \/ \E w \in Workers : WriteSession(w)

SpecConcurrent == InitConcurrent /\ [][NextConcurrent]_vars

\* Some expense is a member of two committed groups.
expense_in_two_groups ==
  \E k1, k2 \in DOMAIN matches :
    /\ k1 # k2
    /\ index_set(matches[k1].expenses) \cap index_set(matches[k2].expenses) # {}

\* A confirmation reported as successful is not in the committed list.
lost_update == \E g \in acknowledged : g \notin Range(matches)

\* C30: as long as the confirm-manual-match operations of a session have
\* been executed one at a time, every confirmation reported as successful is
\* in the committed list and no expense belongs to two committed groups.
\* (That a lost update is reachable once two operations overlap is shown by
\* the witness.)
C30_SerialConfirmationsKept ==
  ~overlapped => (~lost_update /\ ~expense_in_two_groups)

\* Two confirmations overlapped, both were reported as successful, and one
\* of them is missing from the committed list.
C30_Witness ==
  /\ overlapped
  /\ Cardinality(acknowledged) = 2
  /\ lost_update
  /\ \A w \in Workers : in_flight[w] = <<>>
====
